---- MODULE Spec2Model ----
(***************************************************************************)
(* PocketRockets: the auction engine (competition/game.py), its domain     *)
(* helpers (competition/interface.py) and the batch simulator              *)
(* (competition/simulator.py), as a state machine.                         *)
(*                                                                         *)
(* Conventions.  Python lists are sequences (index 1 is Python index 0,    *)
(* list.pop() takes the last element, list.pop(0) the first).  A Card is   *)
(* [id, suit] with id the number n of the Python id "Gn"; an Action is     *)
(* [id, kind] with id the number n of "An".  Optional[int] None and the    *)
(* "no winner" sentinel are both -1, as player ids are 0..n-1.             *)
(* random.Random(seed) is a seeded deterministic generator; it is modelled *)
(* by a full-period linear congruential generator, and shuffle / choice /  *)
(* sample / randrange draw from it the way CPython's do.                   *)
(***************************************************************************)
EXTENDS Integers, Sequences, FiniteSets, TLC

(***************************************************************************)
(* Bounds of the model                                                     *)
(***************************************************************************)
MaxSeed == 2
MaxGemsPerSuit == 2
MaxInfoPerPlayer == 3
MaxGemsInPlay == 4
MaxBidOut == 1
MaxTurns == 2
MaxGames == 2
MaxEntropy == 1
MaxSimTurns == 40
MaxLiveTurns == 4
MaxBots == 6
MaxRandomBid == 1
MaxScenarioCash == 2
MaxRequired == 2
MaxOwned == 3
MaxCalls == 3
MaxPile == 1

(***************************************************************************)
(* Program constants                                                       *)
(***************************************************************************)
MinPlayers == 3
MaxPlayers == 5
NoWinner == -1
None == -1
PendantPoints == 5
TriplePoints == 10
QuadPoints == 15
TrinketSampleSize == 4
GameSeedRange == 1000000000

(***************************************************************************)
(* interface.py: Suit, ActionType                                          *)
(***************************************************************************)
Suit == <<"RUBY", "SAPPHIRE", "EMERALD", "AMETHYST", "DIAMOND">>
Suits == {Suit[i] : i \in 1..Len(Suit)}

ActionType == {"AUCTION_1", "AUCTION_2", "LOAN_10", "LOAN_20", "INVESTMENT_5", "INVESTMENT_10"}

Card(gid, suit) == [id |-> gid, suit |-> suit]
Action(aid, kind) == [id |-> aid, kind |-> kind]
LoanPosition(t, principal, bid) == [id |-> t, principal |-> principal, winning_bid |-> bid]
InvestmentPosition(t, payout, bid) == [id |-> t, payout |-> payout, locked |-> bid]
TrinketObjective(tid, points, required) == [id |-> tid, points |-> points, required_cards |-> required]
TrinketState(objective, claimed_by) == [objective |-> objective, claimed_by |-> claimed_by]

(***************************************************************************)
(* Sequence helpers (Python list operations)                               *)
(***************************************************************************)
Max2(a, b) == IF a >= b THEN a ELSE b
Min2(a, b) == IF a <= b THEN a ELSE b
Range(s) == {s[i] : i \in 1..Len(s)}
Front(s) == SubSeq(s, 1, Len(s) - 1)
Last(s) == s[Len(s)]
Swap(s, i, j) == [s EXCEPT ![i] = s[j], ![j] = s[i]]
RemoveAt(s, i) == SubSeq(s, 1, i - 1) \o SubSeq(s, i + 1, Len(s))

RECURSIVE SumSeq(_)
SumSeq(s) == IF s = <<>> THEN 0 ELSE s[1] + SumSeq(Tail(s))

(***************************************************************************)
(* random.Random                                                           *)
(***************************************************************************)
\* The generator is a seeded deterministic stream; its Mersenne Twister is modelled by
\* a congruential generator of full period on 8 bits, whose high bits give randbelow.
RngSeed(seed) == seed % 256
RngNext(r) == (r * 141 + 3) % 256
RandBelow(r, k) == (r \div 8) % k

\* random.shuffle: for i in reversed(range(1, len(x))): j = randbelow(i + 1); swap.
\* p is the position i + 1 still to be swapped
RECURSIVE ShuffleFrom(_, _, _)
ShuffleFrom(x, p, r) ==
    IF p < 2 \/ Len(x) < p THEN [list |-> x, rng |-> r]
    ELSE LET r2 == RngNext(r)
             j == RandBelow(r2, p) + 1
         IN ShuffleFrom(Swap(x, p, j), p - 1, r2)

Shuffle(x, r) == ShuffleFrom(x, Len(x), r)

\* random.choice(seq) = seq[randbelow(len(seq))]
Choice(s, r) ==
    LET r2 == RngNext(r) IN [value |-> s[RandBelow(r2, Len(s)) + 1], rng |-> r2]

(***************************************************************************)
(* PocketRocketsEngine: deck creation                                      *)
(***************************************************************************)
MakeGemDeck(gems_per_suit) ==
    [k \in 1..(Len(Suit) * gems_per_suit) |->
        Card(k - 1, Suit[((k - 1) \div gems_per_suit) + 1])]

\* counts is the mapping in insertion order: a sequence of [kind, n]
RECURSIVE MakeActionDeck(_, _)
MakeActionDeck(counts, aid) ==
    IF counts = <<>> THEN <<>>
    ELSE [i \in 1..counts[1].n |-> Action(aid + i - 1, counts[1].kind)]
         \o MakeActionDeck(Tail(counts), aid + counts[1].n)

DealtHandOverlapping(gem_deck, i, per_player) ==
    [k \in 1..per_player |-> gem_deck[Len(gem_deck) - (i + k) + 1]]

\* the last `needed` cards of the deck, popped one by one: player i gets the
\* i-th run of per_player pops
DealtHand(gem_deck, i, per_player) ==
    [k \in 1..per_player |-> gem_deck[Len(gem_deck) - (i * per_player + k) + 1]]

CountSuit(cards, s) == Cardinality({i \in 1..Len(cards) : cards[i].suit = s})

(***************************************************************************)
(* interface.py: count_gems, objective_satisfied                           *)
(***************************************************************************)
count_gems(cards) == [s \in Suits |-> CountSuit(cards, s)]

objective_satisfied_any(obj, gems_owned) ==
    LET counts == count_gems(gems_owned)
        trinket_counts == count_gems(obj.required_cards)
    IN \E k \in Suits : trinket_counts[k] > 0 /\ counts[k] > 0

objective_satisfied_more(obj, gems_owned) ==
    LET counts == count_gems(gems_owned)
        trinket_counts == count_gems(obj.required_cards)
    IN \A k \in Suits : ~(counts[k] <= trinket_counts[k])

objective_satisfied(obj, gems_owned) ==
    LET counts == count_gems(gems_owned)
        trinket_counts == count_gems(obj.required_cards)
    IN \A k \in Suits : ~(counts[k] < trinket_counts[k])

(***************************************************************************)
(* Inputs of a game: EngineConfig, ValueChart, trinkets                    *)
(***************************************************************************)
Count(kind, n) == [kind |-> kind, n |-> n]

\* action_counts mappings, in insertion order; the last one yields an empty deck
ActionDecks ==
    { <<Count("AUCTION_1", 1), Count("AUCTION_2", 1)>>,
      <<Count("AUCTION_1", 1), Count("LOAN_10", 1), Count("INVESTMENT_10", 1)>>,
      <<Count("AUCTION_2", 1), Count("LOAN_20", 1), Count("INVESTMENT_5", 1)>>,
      <<Count("AUCTION_1", 2)>>,
      <<Count("AUCTION_1", 0)>> }

\* starting_cash_by_players[n]
StartingCash == {1}

PlayerCount == MinPlayers
PlayerIds == 0..(PlayerCount - 1)

EngineConfigs ==
    { c \in [ seed : 0..MaxSeed,
              info_cards_per_player : 0..MaxInfoPerPlayer,
              starting_cash : StartingCash,
              gems_per_suit : 1..MaxGemsPerSuit,
              action_counts : ActionDecks,
              discard_on_all_pass : BOOLEAN,
              skip_auction2_if_insufficient_gems : BOOLEAN ] :
        /\ PlayerCount * c.info_cards_per_player <= Len(Suit) * c.gems_per_suit
        /\ c.skip_auction2_if_insufficient_gems =>
               \E i \in 1..Len(c.action_counts) : c.action_counts[i].kind = "AUCTION_2"
        /\ Len(Suit) * c.gems_per_suit - PlayerCount * c.info_cards_per_player
               <= MaxGemsInPlay }

\* ValueChart.mapping: the first entries of simulator.default_value_chart, and its
\* first entry alone
ValueCharts == { <<0, 4>>, <<0>> }

Req(suits) == [i \in 1..Len(suits) |-> Card(i - 1, suits[i])]

\* trinkets in declaration order: two pendants of generate_all_possible_trinkets and
\* an objective of one card
TrinketLists ==
    { << TrinketObjective(<<"P2_DIFF", "RUBY", "EMERALD">>, PendantPoints,
                          Req(<<"RUBY", "EMERALD">>)),
         TrinketObjective(<<"P2_DIFF", "AMETHYST", "DIAMOND">>, PendantPoints,
                          Req(<<"AMETHYST", "DIAMOND">>)),
         TrinketObjective(<<"P1", "EMERALD">>, TriplePoints, Req(<<"EMERALD">>)) >> }

(***************************************************************************)
(* State                                                                   *)
(***************************************************************************)
VARIABLES
    cfg,                            \* self._cfg
    rng,                            \* self._rng
    players,                        \* self._players: pid -> _PlayerState
    gem_draw_pile,                  \* _EngineState
    upcoming,
    action_draw_pile,
    action_discard,
    action_counts_remaining,
    seating_order,
    tiebreak_leader_id,
    trinkets,
    value_chart,
    info_counts_by_suit_at_start,
    past_auctions,
    pc,                             \* position in play()
    turn_index,                     \* locals of play()
    started,
    action,
    bids,
    bid_pid,                        \* loop index of _collect_bids
    out,                            \* what get_bid returned to _collect_bids
    winner_id,
    winning_bid,
    new_leader,
    gem_values,                     \* local of _compute_score
    final_scores,                   \* _finalize's result
    final_winner_id,
    start_calls,                    \* per strategy: calls of on_game_start,
    resolved_calls,                 \* on_auction_resolved,
    end_calls,                      \* on_game_end
    hook_raised,                    \* the strategies whose hook has just raised
    sim_pc,                         \* position in run_pocketrocks_simulation
    sim_call,                       \* which call of run_pocketrocks_simulation this is
    sim_seed,                       \* its arguments seed, n_games, bots,
    sim_n_games,                    \* players_per_game, engine_config_factory
    sim_bots,
    sim_ppg,
    sim_factory,
    factory_calls,                  \* calls of a BotEntry's factory made by this call
    sim_rng,                        \* its locals rng, trinkets, g, game_seed,
    sim_trinkets,                   \* participants, game_logs
    sim_g,
    game_seed,
    participants,
    per_bot,
    game_logs,
    first_logs,                     \* the game_logs the first call returned,
    first_bots,                     \* and the bots it was given
    ctor,                           \* a call of PocketRocketsEngine(...) and its outcome
    held,                           \* a GameObservation a strategy has kept
    call,                           \* a call of a function: its arguments and outcome
    player_order_map,               \* AlphaGem: self.player_order_map,
    prev_observation,               \* self.prev_observation,
    encoded,                        \* what encode_input returned last, if it returned
    encode_calls                    \* and how often it has been called

engine_vars ==
    <<cfg, rng, players, gem_draw_pile, upcoming, action_draw_pile, action_discard,
      action_counts_remaining, seating_order, tiebreak_leader_id, trinkets, value_chart,
      info_counts_by_suit_at_start, past_auctions>>

play_vars ==
    <<pc, turn_index, started, action, bids, bid_pid, out, winner_id, winning_bid,
      new_leader, gem_values, final_scores, final_winner_id>>

sim_vars ==
    <<sim_pc, sim_call, sim_seed, sim_n_games, sim_bots, sim_ppg, sim_factory,
      factory_calls, sim_rng, sim_trinkets, sim_g, game_seed, participants, per_bot,
      game_logs, first_logs, first_bots>>

hook_vars == <<start_calls, resolved_calls, end_calls, hook_raised>>

alpha_vars == <<player_order_map, prev_observation, encoded, encode_calls>>

vars == <<engine_vars, play_vars, hook_vars, sim_vars, ctor, held, call, alpha_vars>>

NoAction == Action(None, "NONE")

\* what a strategy callback does: it raises, or returns a value
Raised == [raised |-> TRUE, value |-> 0]
Returned(v) == [raised |-> FALSE, value |-> v]
NoOut == Returned(0)

(***************************************************************************)
(* PocketRocketsEngine.__init__                                            *)
(***************************************************************************)
\* getattr(b, "bot_name", f"Bot{i}") for bots that carry no name
DefaultNames == <<"Bot0", "Bot1", "Bot2", "Bot3", "Bot4">>

NewPlayerState(pid, name, cash, hand) ==
    [ player_id |-> pid, name |-> name, cash |-> cash, gems_owned |-> <<>>, loans |-> <<>>,
      investments |-> <<>>, revealed_info |-> <<>>, unrevealed_info |-> hand,
      trinket_points |-> 0 ]

InfoCounts(ps) ==
    [ s \in Suits |->
        SumSeq([i \in 1..Cardinality(DOMAIN ps) |->
            CountSuit(ps[i - 1].unrevealed_info, s) + CountSuit(ps[i - 1].revealed_info, s)]) ]

InitialCounts(counts) ==
    [ k \in {counts[i].kind : i \in 1..Len(counts)} |->
        LET i == CHOOSE j \in 1..Len(counts) :
                    /\ counts[j].kind = k
                    /\ \A m \in (j + 1)..Len(counts) : counts[m].kind # k
        IN counts[i].n ]

NewEngineFor(n, config, chart, objectives, names) ==
    LET gems == Shuffle(MakeGemDeck(config.gems_per_suit), RngSeed(config.seed))
        acts == Shuffle(MakeActionDeck(config.action_counts, 0), gems.rng)
        per_player == config.info_cards_per_player
        ps == [ i \in 0..(n - 1) |->
                  NewPlayerState(i, names[i + 1], config.starting_cash,
                                 DealtHand(gems.list, i, per_player)) ]
        rest == SubSeq(gems.list, 1, Len(gems.list) - n * per_player)
        n_up == Min2(2, Len(rest))
        seating == [ i \in 1..n |-> i - 1 ]
        leader == Choice(seating, acts.rng)
    IN [ rng |-> leader.rng,
         players |-> ps,
         gem_draw_pile |-> SubSeq(rest, 1, Len(rest) - n_up),
         upcoming |-> [ k \in 1..n_up |-> rest[Len(rest) - k + 1] ],
         action_draw_pile |-> acts.list,
         action_counts_remaining |-> InitialCounts(config.action_counts),
         seating_order |-> seating,
         tiebreak_leader_id |-> leader.value,
         trinkets |-> [ i \in 1..Len(objectives) |-> TrinketState(objectives[i], None) ],
         info_counts_by_suit_at_start |-> InfoCounts(ps) ]

\* the engine of the games played here, which have PlayerCount players
NewEngine(config, chart, objectives, names) ==
    NewEngineFor(PlayerCount, config, chart, objectives, names)

InitPlayVars ==
    /\ pc = "play"
    /\ turn_index = 0
    /\ started = FALSE
    /\ action = NoAction
    /\ bids = [ p \in PlayerIds |-> 0 ]
    /\ bid_pid = 0
    /\ out = NoOut
    /\ winner_id = NoWinner
    /\ winning_bid = 0
    /\ new_leader = None
    /\ gem_values = [ s \in Suits |-> 0 ]
    /\ final_scores = <<>>
    /\ final_winner_id = NoWinner
    /\ start_calls = [ p \in PlayerIds |-> 0 ]
    /\ resolved_calls = [ p \in PlayerIds |-> 0 ]
    /\ end_calls = [ p \in PlayerIds |-> 0 ]
    /\ hook_raised = {}

InitEngine(config, chart, objectives, names) ==
    LET e == NewEngine(config, chart, objectives, names)
    IN /\ cfg = config
       /\ rng = e.rng
       /\ players = e.players
       /\ gem_draw_pile = e.gem_draw_pile
       /\ upcoming = e.upcoming
       /\ action_draw_pile = e.action_draw_pile
       /\ action_discard = <<>>
       /\ action_counts_remaining = e.action_counts_remaining
       /\ seating_order = e.seating_order
       /\ tiebreak_leader_id = e.tiebreak_leader_id
       /\ trinkets = e.trinkets
       /\ value_chart = chart
       /\ info_counts_by_suit_at_start = e.info_counts_by_suit_at_start
       /\ past_auctions = <<>>

\* the engine exists: its construction is not followed
NoConstruction == ctor = [pc |-> "off"]

\* an Optional value: None, or a value
NoneValue == [none |-> TRUE]
Some(v) == [none |-> FALSE, value |-> v]

\* no helper is called
NoCall == call = [pc |-> "off"]

\* no AlphaGem instance
NoAlphaGem ==
    /\ player_order_map = NoneValue
    /\ prev_observation = NoneValue
    /\ encoded = NoneValue
    /\ encode_calls = 0

\* no strategy keeps an observation
NotHeld == [taken |-> FALSE]
NoSnapshot == held = NotHeld

\* no call of run_pocketrocks_simulation: the engine is driven directly
NoSimulation ==
    /\ sim_pc = "off"
    /\ sim_call = 0
    /\ sim_seed = 0
    /\ sim_n_games = 0
    /\ sim_bots = <<>>
    /\ sim_ppg = None
    /\ sim_factory = "default"
    /\ factory_calls = 0
    /\ first_bots = <<>>
    /\ sim_rng = 0
    /\ sim_trinkets = <<>>
    /\ sim_g = 0
    /\ game_seed = 0
    /\ participants = <<>>
    /\ per_bot = <<>>
    /\ game_logs = <<>>
    /\ first_logs = <<>>

Init ==
    /\ \E config \in EngineConfigs, chart \in ValueCharts, objectives \in TrinketLists :
          InitEngine(config, chart, objectives, DefaultNames)
    /\ InitPlayVars
    /\ NoSimulation
    /\ NoConstruction
    /\ NoSnapshot
    /\ NoCall
    /\ NoAlphaGem

(***************************************************************************)
(* PocketRocketsEngine: turn helpers                                       *)
(***************************************************************************)
RECURSIVE RefillUpcomingToThree(_, _)
RefillUpcomingToThree(up, pile) ==
    IF Len(up) < 3 /\ pile # <<>>
    THEN RefillUpcomingToThree(Append(up, Last(pile)), Front(pile))
    ELSE [upcoming |-> up, gem_draw_pile |-> pile]

RefillUpcomingByOne(up, pile) ==
    IF Len(up) < 2 /\ pile # <<>>
    THEN [upcoming |-> Append(up, Last(pile)), gem_draw_pile |-> Front(pile)]
    ELSE [upcoming |-> up, gem_draw_pile |-> pile]

\* _refill_upcoming: while len(upcoming) < 2 and gem_draw_pile: append(pop())
RECURSIVE RefillUpcoming(_, _)
RefillUpcoming(up, pile) ==
    IF Len(up) < 2 /\ pile # <<>>
    THEN RefillUpcoming(Append(up, Last(pile)), Front(pile))
    ELSE [upcoming |-> up, gem_draw_pile |-> pile]

IndexOf(s, x) == CHOOSE i \in 1..Len(s) : s[i] = x /\ \A j \in 1..(i - 1) : s[j] # x

FirstInFallback(scan, tied_set, dflt) == dflt

\* the first element of scan that is in tied_set, or dflt
RECURSIVE FirstIn(_, _, _)
FirstIn(scan, tied_set, dflt) ==
    IF scan = <<>> THEN dflt
    ELSE IF scan[1] \in tied_set THEN scan[1]
    ELSE FirstIn(Tail(scan), tied_set, dflt)

TieBreakLeaderFirst(order, tied_ids, leader_id) ==
    LET leader_idx == IndexOf(order, leader_id)
        scan == SubSeq(order, leader_idx, Len(order)) \o SubSeq(order, 1, leader_idx - 1)
    IN FirstIn(scan, Range(tied_ids), tied_ids[1])

\* _tie_break_winner; leader_idx is the 1-based position, so order[leader_idx + 1:]
\* is SubSeq(order, leader_idx + 1, Len(order))
TieBreakWinner(order, tied_ids, leader_id) ==
    LET leader_idx == IndexOf(order, leader_id)
        scan == SubSeq(order, leader_idx + 1, Len(order)) \o SubSeq(order, 1, leader_idx)
    IN FirstIn(scan, Range(tied_ids), tied_ids[1])

MaxBid(b) == CHOOSE m \in {b[p] : p \in PlayerIds} : \A p \in PlayerIds : b[p] <= m

\* [pid for pid, b in enumerate(bids) if b == max_bid]
RECURSIVE TiedFrom(_, _, _)
TiedFrom(b, max_bid, pid) ==
    IF pid >= PlayerCount THEN <<>>
    ELSE (IF b[pid] = max_bid THEN <<pid>> ELSE <<>>) \o TiedFrom(b, max_bid, pid + 1)

ResolveWinnerFlagIgnored(b, discard_on_all_pass, order, leader_id) ==
    LET max_bid == MaxBid(b)
        tied == TiedFrom(b, max_bid, 0)
    IN IF max_bid = 0 THEN <<NoWinner, 0>>
       ELSE IF Len(tied) = 1 THEN <<tied[1], max_bid>>
       ELSE <<TieBreakWinner(order, tied, leader_id), max_bid>>

ResolveWinnerLowestTied(b, discard_on_all_pass, order, leader_id) ==
    LET max_bid == MaxBid(b)
        tied == TiedFrom(b, max_bid, 0)
    IN IF max_bid = 0 /\ discard_on_all_pass THEN <<NoWinner, 0>>
       ELSE <<tied[1], max_bid>>

\* _resolve_winner: (winner_id, winning_bid)
ResolveWinner(b, discard_on_all_pass, order, leader_id) ==
    LET max_bid == MaxBid(b)
        tied == TiedFrom(b, max_bid, 0)
    IN IF max_bid = 0 /\ discard_on_all_pass THEN <<NoWinner, 0>>
       ELSE IF Len(tied) = 1 THEN <<tied[1], max_bid>>
       ELSE <<TieBreakWinner(order, tied, leader_id), max_bid>>

LegalizeNoUpperCheck(o, cash) ==
    LET amt == IF o.raised THEN 0 ELSE o.value
    IN IF amt < 0 THEN 0 ELSE amt

LegalizeStrictUpper(o, cash) ==
    LET amt == IF o.raised THEN 0 ELSE o.value
    IN IF amt < 0 \/ amt >= cash THEN 0 ELSE amt

\* _collect_bids, one strategy: the try/except and the legality check
Legalize(o, cash) ==
    LET amt == IF o.raised THEN 0 ELSE o.value
    IN IF amt < 0 \/ amt > cash THEN 0 ELSE amt

AwardFromFirstOnly(ts, i, winner, gems, points, claimed) ==
    LET open == {j \in i..Len(ts) : ts[j].claimed_by = None
                                     /\ objective_satisfied(ts[j].objective, gems)}
    IN IF open = {} THEN [trinkets |-> ts, trinket_points |-> points, claimed |-> claimed]
       ELSE LET j == CHOOSE k \in open : \A m \in open : k <= m
            IN [ trinkets |-> [ts EXCEPT ![j] = TrinketState(ts[j].objective, winner)],
                 trinket_points |-> points + ts[j].objective.points,
                 claimed |-> Append(claimed, ts[j].objective.id) ]

\* _award_trinkets_if_any: the loop from trinket i on; returns the trinket states,
\* the winner's trinket_points and the claimed ids
RECURSIVE AwardFrom(_, _, _, _, _, _)
AwardFrom(ts, i, winner, gems, points, claimed) ==
    IF i > Len(ts) THEN [trinkets |-> ts, trinket_points |-> points, claimed |-> claimed]
    ELSE IF ts[i].claimed_by # None
         THEN AwardFrom(ts, i + 1, winner, gems, points, claimed)
    ELSE IF objective_satisfied(ts[i].objective, gems)
         THEN AwardFrom([ts EXCEPT ![i] = TrinketState(ts[i].objective, winner)], i + 1,
                        winner, gems, points + ts[i].objective.points,
                        Append(claimed, ts[i].objective.id))
    ELSE AwardFrom(ts, i + 1, winner, gems, points, claimed)

\* the loop without "if ts.claimed_by is not None: continue"
RECURSIVE ReclaimFrom(_, _, _, _, _, _)
ReclaimFrom(ts, i, winner, gems, points, claimed) ==
    IF i > Len(ts) THEN [trinkets |-> ts, trinket_points |-> points, claimed |-> claimed]
    ELSE IF objective_satisfied(ts[i].objective, gems)
         THEN ReclaimFrom([ts EXCEPT ![i] = TrinketState(ts[i].objective, winner)], i + 1,
                          winner, gems, points + ts[i].objective.points,
                          Append(claimed, ts[i].objective.id))
    ELSE ReclaimFrom(ts, i + 1, winner, gems, points, claimed)

AwardTrinketsReclaim(ts, winner, ps) ==
    IF winner < 0 THEN [trinkets |-> ts, players |-> ps, claimed |-> <<>>]
    ELSE LET r == ReclaimFrom(ts, 1, winner, ps[winner].gems_owned,
                              ps[winner].trinket_points, <<>>)
         IN [ trinkets |-> r.trinkets,
              players |-> [ps EXCEPT ![winner].trinket_points = r.trinket_points],
              claimed |-> r.claimed ]

\* _award_trinkets_if_any
AwardTrinketsIfAny(ts, winner, ps) ==
    IF winner < 0 THEN [trinkets |-> ts, players |-> ps, claimed |-> <<>>]
    ELSE LET r == AwardFrom(ts, 1, winner, ps[winner].gems_owned,
                            ps[winner].trinket_points, <<>>)
         IN [ trinkets |-> r.trinkets,
              players |-> [ps EXCEPT ![winner].trinket_points = r.trinket_points],
              claimed |-> r.claimed ]

(***************************************************************************)
(* PocketRocketsEngine.play                                                *)
(***************************************************************************)
\* for pid, bot in enumerate(self._bots): try: bot.hook(...) except Exception: pass.
\* Every strategy is called; `raising` are the strategies whose hook raises: none,
\* or the one in the middle of the loop
HookOutcomes == { {}, {1} }
CalledUntilRaise(calls, raising) ==
    [ p \in PlayerIds |-> IF \E q \in raising : q < p THEN calls[p] ELSE calls[p] + 1 ]

CalledOnce(calls, raising) == [ p \in PlayerIds |-> calls[p] + 1 ]
NoHook == UNCHANGED <<start_calls, resolved_calls, end_calls>> /\ hook_raised' = {}

\* play(), before the loop: turn_index = 0, _refill_upcoming(), started = False
PlayStart ==
    /\ pc = "play"
    /\ LET r == RefillUpcoming(upcoming, gem_draw_pile)
       IN /\ upcoming' = r.upcoming
          /\ gem_draw_pile' = r.gem_draw_pile
    /\ turn_index' = 0
    /\ started' = FALSE
    /\ pc' = "loop"
    /\ UNCHANGED <<cfg, rng, players, action_draw_pile, action_discard,
                   action_counts_remaining, seating_order, tiebreak_leader_id, trinkets,
                   value_chart, info_counts_by_suit_at_start, past_auctions>>
    /\ UNCHANGED <<action, bids, bid_pid, out, winner_id, winning_bid, new_leader,
                   gem_values, final_scores, final_winner_id>>
    /\ NoHook

\* the loop's end condition: no gems anywhere
GameOver ==
    /\ pc = "loop"
    /\ Len(upcoming) = 0 /\ Len(gem_draw_pile) = 0
    /\ pc' = "end"
    /\ out' = NoOut
    /\ UNCHANGED engine_vars
    /\ UNCHANGED <<turn_index, started, action, bids, bid_pid, winner_id, winning_bid,
                   new_leader, gem_values, final_scores, final_winner_id>>
    /\ NoHook

SafetyValveDrawPileOnly ==
    /\ pc = "loop"
    /\ ~(Len(upcoming) = 0 /\ Len(gem_draw_pile) = 0)
    /\ Len(action_draw_pile) = 0
    /\ pc' = "end"
    /\ out' = NoOut
    /\ UNCHANGED engine_vars
    /\ UNCHANGED <<turn_index, started, action, bids, bid_pid, winner_id, winning_bid,
                   new_leader, gem_values, final_scores, final_winner_id>>
    /\ NoHook

\* the safety valve: gems remain, no action card in either pile
SafetyValve ==
    /\ pc = "loop"
    /\ ~(Len(upcoming) = 0 /\ Len(gem_draw_pile) = 0)
    /\ Len(action_draw_pile) = 0 /\ Len(action_discard) = 0
    /\ pc' = "end"
    /\ out' = NoOut
    /\ UNCHANGED engine_vars
    /\ UNCHANGED <<turn_index, started, action, bids, bid_pid, winner_id, winning_bid,
                   new_leader, gem_values, final_scores, final_winner_id>>
    /\ NoHook

CountsGet(counts, kind) == IF kind \in DOMAIN counts THEN counts[kind] ELSE 0

\* action_counts_remaining[kind] = max(0, action_counts_remaining.get(kind, 0) - 1)
CountDown(counts, kind) ==
    [ k \in (DOMAIN counts) \cup {kind} |->
        IF k = kind THEN Max2(0, CountsGet(counts, kind) - 1) ELSE counts[k] ]

SkipActionFlagIgnored(a, up, config) ==
    \/ a.kind = "AUCTION_1" /\ Len(up) < 1
    \/ a.kind = "AUCTION_2" /\ Len(up) < 2

SkipAction(a, up, config) ==
    \/ a.kind = "AUCTION_1" /\ Len(up) < 1
    \/ /\ a.kind = "AUCTION_2"
       /\ config.skip_auction2_if_insufficient_gems
       /\ Len(up) < 2

\* one pass of the loop head: reshuffle the discard pile if the draw pile is empty,
\* draw an action, count it, then skip it or start the turn (on_game_start is
\* called here the first time; it changes no engine state)
DrawActionWithin(turns, raising) ==
    /\ pc = "loop"
    /\ ~(Len(upcoming) = 0 /\ Len(gem_draw_pile) = 0)
    /\ ~(Len(action_draw_pile) = 0 /\ Len(action_discard) = 0)
    /\ turn_index < turns
    /\ LET reshuffle == Len(action_draw_pile) = 0
           sh == IF reshuffle THEN Shuffle(action_discard, rng)
                 ELSE [list |-> action_draw_pile, rng |-> rng]
           discard == IF reshuffle THEN <<>> ELSE action_discard
           a == Last(sh.list)
       IN /\ rng' = sh.rng
          /\ action_draw_pile' = Front(sh.list)
          /\ action_discard' = Append(discard, a)
          /\ action_counts_remaining' = CountDown(action_counts_remaining, a.kind)
          /\ action' = a
          /\ IF SkipAction(a, upcoming, cfg)
             THEN /\ pc' = "loop"
                  /\ raising = {}
                  /\ UNCHANGED <<started, bids, bid_pid, start_calls>>
             ELSE /\ pc' = "bid"
                  /\ IF started THEN raising = {} /\ UNCHANGED start_calls
                     ELSE start_calls' = CalledOnce(start_calls, raising)
                  /\ started' = TRUE
                  /\ bids' = [ p \in PlayerIds |-> 0 ]
                  /\ bid_pid' = 0
          /\ hook_raised' = raising
          /\ UNCHANGED <<resolved_calls, end_calls>>
    /\ UNCHANGED <<cfg, players, gem_draw_pile, upcoming, seating_order,
                   tiebreak_leader_id, trinkets, value_chart,
                   info_counts_by_suit_at_start, past_auctions>>
    /\ out' = NoOut
    /\ UNCHANGED <<turn_index, winner_id, winning_bid, new_leader, gem_values,
                   final_scores, final_winner_id>>

DrawAction(raising) == DrawActionWithin(MaxTurns, raising)

\* what a strategy's get_bid may do, asked by a player holding cash: raise, or return
\* a negative amount, a small amount, or one more than the player can pay
BidOutputs(cash) == {Raised} \cup {Returned(a) : a \in ((-1)..MaxBidOut) \cup {cash + 1}}

GetBidPaidAtOnce(o) ==
    /\ pc = "bid"
    /\ bid_pid < PlayerCount
    /\ out' = o
    /\ bids' = [bids EXCEPT ![bid_pid] = Legalize(o, players[bid_pid].cash)]
    /\ players' = [players EXCEPT ![bid_pid].cash = @ - bids'[bid_pid]]
    /\ bid_pid' = bid_pid + 1
    /\ UNCHANGED <<cfg, rng, gem_draw_pile, upcoming, action_draw_pile, action_discard,
                   action_counts_remaining, seating_order, tiebreak_leader_id, trinkets,
                   value_chart, info_counts_by_suit_at_start, past_auctions>>
    /\ UNCHANGED <<pc, turn_index, started, action, winner_id, winning_bid, new_leader,
                   gem_values, final_scores, final_winner_id>>
    /\ NoHook

\* _collect_bids, one pass of its loop: strategy bid_pid answers o
GetBid(o) ==
    /\ pc = "bid"
    /\ bid_pid < PlayerCount
    /\ out' = o
    /\ bids' = [bids EXCEPT ![bid_pid] = Legalize(o, players[bid_pid].cash)]
    /\ bid_pid' = bid_pid + 1
    /\ UNCHANGED engine_vars
    /\ UNCHANGED <<pc, turn_index, started, action, winner_id, winning_bid, new_leader,
                   gem_values, final_scores, final_winner_id>>
    /\ NoHook

NewLeaderAlwaysWinner(winner, leader) == winner

NewLeaderPassedOn(winner, leader) ==
    IF winner >= 0 THEN winner ELSE (leader + 1) % PlayerCount

\* new_leader = tiebreak_leader_id; if winner_id >= 0: new_leader = winner_id
NewLeader(winner, leader) == IF winner >= 0 THEN winner ELSE leader

\* _resolve_winner, the new leader, and "winner pays bid immediately"
Resolve ==
    /\ pc = "bid"
    /\ bid_pid = PlayerCount
    /\ LET r == ResolveWinner(bids, cfg.discard_on_all_pass, seating_order,
                              tiebreak_leader_id)
       IN /\ winner_id' = r[1]
          /\ winning_bid' = r[2]
          /\ new_leader' = NewLeader(r[1], tiebreak_leader_id)
          /\ players' = IF r[1] >= 0
                        THEN [players EXCEPT ![r[1]].cash = @ - r[2]]
                        ELSE players
    /\ out' = NoOut
    /\ pc' = "apply"
    /\ UNCHANGED <<cfg, rng, gem_draw_pile, upcoming, action_draw_pile, action_discard,
                   action_counts_remaining, seating_order, tiebreak_leader_id, trinkets,
                   value_chart, info_counts_by_suit_at_start, past_auctions>>
    /\ UNCHANGED <<turn_index, started, action, bids, bid_pid, gem_values, final_scores,
                   final_winner_id>>
    /\ NoHook

PayoutAlwaysTen(kind) == 10

PrincipalAlwaysTen(kind) == 10

Principal(kind) == IF kind = "LOAN_10" THEN 10 ELSE 20
Payout(kind) == IF kind = "INVESTMENT_5" THEN 5 ELSE 10

ApplyEffectsUnsoldKept(kind, winner, bid, t, ps, up, pile) ==
    IF kind \in {"AUCTION_1", "AUCTION_2"}
    THEN LET take == IF winner < 0 THEN 0
                     ELSE IF kind = "AUCTION_1" THEN Min2(1, Len(up)) ELSE Min2(2, Len(up))
             gems == SubSeq(up, 1, take)
             r == RefillUpcoming(SubSeq(up, take + 1, Len(up)), pile)
         IN [ players |-> IF winner >= 0
                          THEN [ps EXCEPT ![winner].gems_owned = @ \o gems]
                          ELSE ps,
              upcoming |-> r.upcoming,
              gem_draw_pile |-> r.gem_draw_pile,
              auctioned_gems |-> gems ]
    ELSE IF kind \in {"LOAN_10", "LOAN_20"}
    THEN [ players |-> IF winner >= 0
                       THEN [ps EXCEPT ![winner].cash = @ + Principal(kind),
                                       ![winner].loans =
                                           Append(@, LoanPosition(t, Principal(kind), bid))]
                       ELSE ps,
           upcoming |-> up, gem_draw_pile |-> pile, auctioned_gems |-> <<>> ]
    ELSE [ players |-> IF winner >= 0
                       THEN [ps EXCEPT ![winner].investments =
                                           Append(@, InvestmentPosition(t, Payout(kind), bid))]
                       ELSE ps,
           upcoming |-> up, gem_draw_pile |-> pile, auctioned_gems |-> <<>> ]

ApplyEffectsRowKept(kind, winner, bid, t, ps, up, pile) ==
    LET take == IF kind = "AUCTION_1" THEN Min2(1, Len(up)) ELSE Min2(2, Len(up))
        gems == IF kind \in {"AUCTION_1", "AUCTION_2"} THEN SubSeq(up, 1, take) ELSE <<>>
    IN [ players |-> IF winner >= 0 THEN [ps EXCEPT ![winner].gems_owned = @ \o gems] ELSE ps,
         upcoming |-> up, gem_draw_pile |-> pile, auctioned_gems |-> gems ]

\* play(), "Apply effects" by action kind (the bid is already paid)
ApplyEffects(kind, winner, bid, t, ps, up, pile) ==
    IF kind \in {"AUCTION_1", "AUCTION_2"}
    THEN LET take == IF kind = "AUCTION_1" THEN Min2(1, Len(up)) ELSE Min2(2, Len(up))
             gems == SubSeq(up, 1, take)
             r == RefillUpcoming(SubSeq(up, take + 1, Len(up)), pile)
         IN [ players |-> IF winner >= 0
                          THEN [ps EXCEPT ![winner].gems_owned = @ \o gems]
                          ELSE ps,
              upcoming |-> r.upcoming,
              gem_draw_pile |-> r.gem_draw_pile,
              auctioned_gems |-> gems ]
    ELSE IF kind \in {"LOAN_10", "LOAN_20"}
    THEN [ players |-> IF winner >= 0
                       THEN [ps EXCEPT ![winner].cash = @ + Principal(kind),
                                       ![winner].loans =
                                           Append(@, LoanPosition(t, Principal(kind), bid))]
                       ELSE ps,
           upcoming |-> up, gem_draw_pile |-> pile, auctioned_gems |-> <<>> ]
    ELSE [ players |-> IF winner >= 0
                       THEN [ps EXCEPT ![winner].investments =
                                           Append(@, InvestmentPosition(t, Payout(kind), bid))]
                       ELSE ps,
           upcoming |-> up, gem_draw_pile |-> pile, auctioned_gems |-> <<>> ]

AuctionResultNextIndex(t, a, winner, bid, gems, leader, claimed, b) ==
    [ turn_index |-> t + 1, action |-> a, winner_id |-> winner, winning_bid |-> bid,
      auctioned_gems |-> gems, new_tiebreak_leader_id |-> leader,
      trinkets_claimed |-> claimed, bids |-> b ]

AuctionResult(t, a, winner, bid, gems, leader, claimed, b) ==
    [ turn_index |-> t, action |-> a, winner_id |-> winner, winning_bid |-> bid,
      auctioned_gems |-> gems, new_tiebreak_leader_id |-> leader,
      trinkets_claimed |-> claimed, bids |-> b ]

\* effects of the action, the trinket check, the AuctionResult, the leader and the
\* history (on_auction_resolved is called at the end; it changes no engine state)
Apply(raising) ==
    /\ pc = "apply"
    /\ LET e == ApplyEffects(action.kind, winner_id, winning_bid, turn_index, players,
                             upcoming, gem_draw_pile)
           w == AwardTrinketsIfAny(trinkets, winner_id, e.players)
       IN /\ players' = w.players
          /\ upcoming' = e.upcoming
          /\ gem_draw_pile' = e.gem_draw_pile
          /\ trinkets' = w.trinkets
          /\ past_auctions' =
                Append(past_auctions,
                       AuctionResult(turn_index, action, winner_id, winning_bid,
                                     e.auctioned_gems, new_leader, w.claimed, bids))
    /\ tiebreak_leader_id' = new_leader
    /\ pc' = "reveal"
    /\ UNCHANGED <<cfg, rng, action_draw_pile, action_discard, action_counts_remaining,
                   seating_order, value_chart, info_counts_by_suit_at_start>>
    /\ UNCHANGED <<turn_index, started, action, bids, bid_pid, out, winner_id,
                   winning_bid, new_leader, gem_values, final_scores, final_winner_id>>
    /\ resolved_calls' = CalledOnce(resolved_calls, raising)
    /\ hook_raised' = raising
    /\ UNCHANGED <<start_calls, end_calls>>

ChosenIndexOrLast(unrevealed, o) ==
    LET hits == {i \in 1..Len(unrevealed) : ~o.raised /\ unrevealed[i].id = o.value}
    IN IF hits = {} THEN Len(unrevealed) ELSE CHOOSE i \in hits : \A j \in hits : i <= j

\* next((i for i, c in enumerate(unrevealed) if c.id == chosen_id), None), None -> 0
ChosenIndex(unrevealed, o) ==
    LET hits == {i \in 1..Len(unrevealed) : ~o.raised /\ unrevealed[i].id = o.value}
    IN IF hits = {} THEN 1 ELSE CHOOSE i \in hits : \A j \in hits : i <= j

\* _reveal_on_win, when the strategy is asked
RevealOnWin(ps, winner, o) ==
    LET p == ps[winner]
        chosen_idx == ChosenIndex(p.unrevealed_info, o)
    IN [ps EXCEPT ![winner].unrevealed_info = RemoveAt(p.unrevealed_info, chosen_idx),
                  ![winner].revealed_info = Append(p.revealed_info,
                                                   p.unrevealed_info[chosen_idx])]

\* what the choose_info_to_reveal of a strategy holding `unrevealed` may do: raise,
\* name no card of the game, name a card of another hand, or name its first or its
\* last card
RevealOutputs(unrevealed) ==
    {Raised, Returned(-1), Returned(Len(Suit) * cfg.gems_per_suit - 1)}
    \cup {Returned(unrevealed[i].id) : i \in {1, Len(unrevealed)} \cap DOMAIN unrevealed}

RevealEnd ==
    /\ turn_index' = turn_index + 1
    /\ pc' = "loop"
    /\ UNCHANGED <<cfg, rng, gem_draw_pile, upcoming, action_draw_pile, action_discard,
                   action_counts_remaining, seating_order, tiebreak_leader_id, trinkets,
                   value_chart, info_counts_by_suit_at_start, past_auctions>>
    /\ UNCHANGED <<started, action, bids, bid_pid, winner_id, winning_bid,
                   new_leader, gem_values, final_scores, final_winner_id>>
    /\ NoHook

\* _reveal_on_win returns at once: no winner, or the winner has nothing to reveal
NoReveal ==
    /\ pc = "reveal"
    /\ IF winner_id < 0 THEN TRUE ELSE players[winner_id].unrevealed_info = <<>>
    /\ players' = players
    /\ out' = NoOut
    /\ RevealEnd

\* _reveal_on_win asks the winner, whose choose_info_to_reveal answers o
Reveal(o) ==
    /\ pc = "reveal"
    /\ IF winner_id < 0 THEN FALSE ELSE players[winner_id].unrevealed_info # <<>>
    /\ out' = o
    /\ players' = RevealOnWin(players, winner_id, o)
    /\ RevealEnd

(***************************************************************************)
(* PocketRocketsEngine._compute_score, _finalize                           *)
(***************************************************************************)
GemValuesFromUnrevealed(chart, counts, ps) ==
    [ s \in Suits |->
        LET count == SumSeq([i \in 1..PlayerCount |-> CountSuit(ps[i - 1].unrevealed_info, s)])
        IN IF count < 0 THEN 0
           ELSE IF count >= Len(chart) THEN 0
           ELSE chart[count + 1] ]

\* the gem_values dict of _compute_score; mapping[count] is chart[count + 1]
GemValues(chart, counts, ps) ==
    [ s \in Suits |->
        LET count == CountsGet(counts, s)
        IN IF count < 0 THEN 0
           ELSE IF count >= Len(chart) THEN 0
           ELSE chart[count + 1] ]

ComputeScoreCountingGems(p, values) ==
    p.cash
    + SumSeq([i \in 1..Len(p.gems_owned) |-> values[p.gems_owned[i].suit] + 1])
    + SumSeq([i \in 1..Len(p.investments) |->
                 p.investments[i].payout + p.investments[i].locked])
    - SumSeq([i \in 1..Len(p.loans) |-> p.loans[i].principal])
    + p.trinket_points

\* _compute_score, after the gem_values dict is built
ComputeScore(p, values) ==
    p.cash
    + SumSeq([i \in 1..Len(p.gems_owned) |-> values[p.gems_owned[i].suit]])
    + SumSeq([i \in 1..Len(p.investments) |->
                 p.investments[i].payout + p.investments[i].locked])
    - SumSeq([i \in 1..Len(p.loans) |-> p.loans[i].principal])
    + p.trinket_points

RECURSIVE InsertDescAfterEqual(_, _)
InsertDescAfterEqual(x, t) ==
    IF t = <<>> THEN <<x>>
    ELSE IF t[1].score < x.score THEN <<x>> \o t
    ELSE <<t[1]>> \o InsertDescAfterEqual(x, Tail(t))

\* list.sort(key=score, reverse=True) is stable: equal scores keep their order
RECURSIVE InsertDesc(_, _)
InsertDesc(x, t) ==
    IF t = <<>> THEN <<x>>
    ELSE IF t[1].score <= x.score THEN <<x>> \o t
    ELSE <<t[1]>> \o InsertDesc(x, Tail(t))

RECURSIVE SortDesc(_)
SortDesc(s) == IF s = <<>> THEN <<>> ELSE InsertDesc(s[1], SortDesc(Tail(s)))

\* the end-game hooks, which change no engine state; _finalize scores and ranks
Finalize(raising) ==
    /\ pc = "end"
    /\ LET values == GemValues(value_chart, info_counts_by_suit_at_start, players)
           scores == [ i \in 1..PlayerCount |->
                         [ player_id |-> players[i - 1].player_id,
                           name |-> players[i - 1].name,
                           score |-> ComputeScore(players[i - 1], values) ] ]
           ranked == SortDesc(scores)
       IN /\ gem_values' = values
          /\ final_scores' = ranked
          /\ final_winner_id' = IF ranked # <<>> THEN ranked[1].player_id ELSE -1
    /\ pc' = "done"
    /\ UNCHANGED engine_vars
    /\ UNCHANGED <<turn_index, started, action, bids, bid_pid, out, winner_id,
                   winning_bid, new_leader>>
    /\ end_calls' = CalledOnce(end_calls, raising)
    /\ hook_raised' = raising
    /\ UNCHANGED <<start_calls, resolved_calls>>

(***************************************************************************)
(* PocketRocketsEngine: snapshot building                                  *)
(***************************************************************************)
\* self._players and self._state, as the snapshot builders read them
EngineState ==
    [ players |-> players, gem_draw_pile |-> gem_draw_pile, upcoming |-> upcoming,
      action_discard |-> action_discard,
      action_counts_remaining |-> action_counts_remaining,
      seating_order |-> seating_order, tiebreak_leader_id |-> tiebreak_leader_id,
      trinkets |-> trinkets, value_chart |-> value_chart, past_auctions |-> past_auctions ]

\* action_counts_remaining = None: `dict(x) if x else None` is None exactly for the
\* empty dict, and the readers of the field treat both alike, so None is the empty
\* mapping
NoCounts == <<>>

\* _PlayerState.unrevealed_info_count
unrevealed_info_count(p) == Len(p.unrevealed_info)

PlayerPublicState(p) ==
    [ player_id |-> p.player_id, name |-> p.name, cash |-> p.cash,
      gems_owned |-> p.gems_owned, loans |-> p.loans, investments |-> p.investments,
      revealed_info |-> p.revealed_info,
      unrevealed_info_count |-> unrevealed_info_count(p),
      trinket_points |-> p.trinket_points ]

\* _build_public_state: one PlayerPublicState per player, in player order
BuildPublicState(st) ==
    [ num_players |-> Cardinality(DOMAIN st.players),
      players |-> [ i \in 1..Cardinality(DOMAIN st.players) |->
                      PlayerPublicState(st.players[i - 1]) ],
      trinkets |-> st.trinkets,
      value_chart |-> st.value_chart,
      action_discard |-> st.action_discard,
      past_auctions |-> st.past_auctions,
      action_counts_remaining |->
          IF DOMAIN st.action_counts_remaining = {} THEN NoCounts
          ELSE st.action_counts_remaining ]

BuildPrivateStateOfNext(st, player_id) ==
    LET p == st.players[(player_id + 1) % Cardinality(DOMAIN st.players)]
    IN [ player_id |-> player_id,
         info_cards_unrevealed |-> p.unrevealed_info,
         info_cards_revealed |-> p.revealed_info ]

\* _build_private_state
BuildPrivateState(st, player_id) ==
    LET p == st.players[player_id]
    IN [ player_id |-> player_id,
         info_cards_unrevealed |-> p.unrevealed_info,
         info_cards_revealed |-> p.revealed_info ]

\* _build_context
BuildContext(st, t, a) ==
    [ turn_index |-> t, action |-> a, upcoming_gems |-> st.upcoming,
      biddable_pile_count |-> Len(st.gem_draw_pile),
      tiebreak_leader_id |-> st.tiebreak_leader_id,
      seating_order |-> st.seating_order ]

\* _build_observation; me is the first public player state with this player_id
BuildObservation(st, player_id, t, a) ==
    LET public == BuildPublicState(st)
        me == CHOOSE i \in DOMAIN public.players :
                  /\ public.players[i].player_id = player_id
                  /\ \A j \in 1..(i - 1) : public.players[j].player_id # player_id
    IN [ public |-> public,
         private |-> BuildPrivateState(st, player_id),
         context |-> BuildContext(st, t, a),
         me |-> public.players[me] ]

\* the action of on_game_end's context, Action(id="END", kind=AUCTION_1): END is the id
\* of no card
EndAction == Action(None, "AUCTION_1")

SharedFieldsWithHistory == {"value_chart", "seating_order", "past_auctions"}

\* the fields of an observation that are the engine's own objects; every other
\* field is a number or a tuple() copy of the engine's list, or a dict() copy
SharedFields == {"value_chart", "seating_order"}

\* what a strategy reads in an observation o it has kept, the engine being in state
\* st: a shared field shows the engine's object as it is now
Seen(o, st) ==
    LET now(field, kept, engine) == IF field \in SharedFields THEN engine ELSE kept
        player(i) ==
            LET k == o.public.players[i]
                e == st.players[i - 1]
            IN [ player_id |-> k.player_id, name |-> k.name, cash |-> k.cash,
                 gems_owned |-> now("gems_owned", k.gems_owned, e.gems_owned),
                 loans |-> now("loans", k.loans, e.loans),
                 investments |-> now("investments", k.investments, e.investments),
                 revealed_info |-> now("revealed_info", k.revealed_info, e.revealed_info),
                 unrevealed_info_count |-> k.unrevealed_info_count,
                 trinket_points |-> k.trinket_points ]
        own == st.players[o.private.player_id]
    IN [ public |->
           [ num_players |-> o.public.num_players,
             players |-> [ i \in DOMAIN o.public.players |-> player(i) ],
             trinkets |-> now("trinkets", o.public.trinkets, st.trinkets),
             value_chart |-> now("value_chart", o.public.value_chart, st.value_chart),
             action_discard |->
                 now("action_discard", o.public.action_discard, st.action_discard),
             past_auctions |->
                 now("past_auctions", o.public.past_auctions, st.past_auctions),
             action_counts_remaining |->
                 now("action_counts_remaining", o.public.action_counts_remaining,
                     st.action_counts_remaining) ],
         private |->
           [ player_id |-> o.private.player_id,
             info_cards_unrevealed |->
                 now("info_cards_unrevealed", o.private.info_cards_unrevealed,
                     own.unrevealed_info),
             info_cards_revealed |->
                 now("info_cards_revealed", o.private.info_cards_revealed,
                     own.revealed_info) ],
         context |->
           [ turn_index |-> o.context.turn_index, action |-> o.context.action,
             upcoming_gems |-> now("upcoming_gems", o.context.upcoming_gems, st.upcoming),
             biddable_pile_count |-> o.context.biddable_pile_count,
             tiebreak_leader_id |-> o.context.tiebreak_leader_id,
             seating_order |->
                 now("seating_order", o.context.seating_order, st.seating_order) ],
         me |-> player(CHOOSE i \in DOMAIN o.public.players :
                           o.public.players[i].player_id = o.private.player_id) ]

(***************************************************************************)
(* One game, with strategies that may answer anything                      *)
(***************************************************************************)
Next ==
    \/ PlayStart /\ UNCHANGED <<sim_vars, ctor, held, call, alpha_vars>>
    \/ GameOver /\ UNCHANGED <<sim_vars, ctor, held, call, alpha_vars>>
    \/ SafetyValve /\ UNCHANGED <<sim_vars, ctor, held, call, alpha_vars>>
    \/ \E raising \in HookOutcomes : DrawAction(raising) /\ UNCHANGED <<sim_vars, ctor, held, call, alpha_vars>>
    \/ \E o \in BidOutputs(players[bid_pid % PlayerCount].cash) :
          GetBid(o) /\ UNCHANGED <<sim_vars, ctor, held, call, alpha_vars>>
    \/ Resolve /\ UNCHANGED <<sim_vars, ctor, held, call, alpha_vars>>
    \/ \E raising \in HookOutcomes : Apply(raising) /\ UNCHANGED <<sim_vars, ctor, held, call, alpha_vars>>
    \/ NoReveal /\ UNCHANGED <<sim_vars, ctor, held, call, alpha_vars>>
    \/ \E o \in RevealOutputs(players[Max2(winner_id, 0)].unrevealed_info) : Reveal(o) /\ UNCHANGED <<sim_vars, ctor, held, call, alpha_vars>>
    \/ \E raising \in HookOutcomes : Finalize(raising) /\ UNCHANGED <<sim_vars, ctor, held, call, alpha_vars>>

Spec == Init /\ [][Next]_vars

(***************************************************************************)
(* A whole game, for the decks that hold an AUCTION_1 card                 *)
(***************************************************************************)
GemsInPlay(config) ==
    Len(Suit) * config.gems_per_suit - PlayerCount * config.info_cards_per_player

DeckSize(config) == SumSeq([ i \in 1..Len(config.action_counts) |-> config.action_counts[i].n ])

HasAuction1(config) ==
    \E i \in 1..Len(config.action_counts) :
        config.action_counts[i].kind = "AUCTION_1" /\ config.action_counts[i].n > 0

\* decks that hold an AUCTION_1 card, with a second auction or with the cash cards
LiveDecks ==
    { <<Count("AUCTION_1", 1), Count("AUCTION_2", 1)>>,
      <<Count("AUCTION_1", 1), Count("LOAN_10", 1), Count("INVESTMENT_10", 1)>> }

LiveConfigs ==
    { c \in [ seed : 0..MaxSeed,
              info_cards_per_player : 0..MaxInfoPerPlayer,
              starting_cash : StartingCash,
              gems_per_suit : 1..MaxGemsPerSuit,
              action_counts : LiveDecks,
              discard_on_all_pass : BOOLEAN,
              skip_auction2_if_insufficient_gems : BOOLEAN ] :
        /\ HasAuction1(c)
        /\ c.skip_auction2_if_insufficient_gems =>
              \E i \in DOMAIN c.action_counts : c.action_counts[i].kind = "AUCTION_2"
        /\ GemsInPlay(c) >= 0
        /\ GemsInPlay(c) * DeckSize(c) <= MaxLiveTurns }

\* the chart of these games: the first entries of simulator.default_value_chart
LiveCharts == { <<0, 4>> }

LiveInit ==
    /\ \E config \in LiveConfigs, chart \in LiveCharts, objectives \in TrinketLists :
          InitEngine(config, chart, objectives, DefaultNames)
    /\ InitPlayVars
    /\ NoSimulation
    /\ NoConstruction
    /\ NoSnapshot
    /\ NoCall
    /\ NoAlphaGem

\* the turns of a game whose every pass through the deck takes a gem from the row
TurnLimit == GemsInPlay(cfg) * DeckSize(cfg)

LiveNext ==
    \/ PlayStart /\ UNCHANGED <<sim_vars, ctor, held, call, alpha_vars>>
    \/ GameOver /\ UNCHANGED <<sim_vars, ctor, held, call, alpha_vars>>
    \/ \E raising \in HookOutcomes :
          DrawActionWithin(TurnLimit, raising) /\ UNCHANGED <<sim_vars, ctor, held, call, alpha_vars>>
    \/ \E o \in BidOutputs(players[bid_pid % PlayerCount].cash) :
          GetBid(o) /\ UNCHANGED <<sim_vars, ctor, held, call, alpha_vars>>
    \/ Resolve /\ UNCHANGED <<sim_vars, ctor, held, call, alpha_vars>>
    \/ \E raising \in HookOutcomes : Apply(raising) /\ UNCHANGED <<sim_vars, ctor, held, call, alpha_vars>>
    \/ NoReveal /\ UNCHANGED <<sim_vars, ctor, held, call, alpha_vars>>
    \/ \E o \in RevealOutputs(players[Max2(winner_id, 0)].unrevealed_info) :
          Reveal(o) /\ UNCHANGED <<sim_vars, ctor, held, call, alpha_vars>>
    \/ \E raising \in HookOutcomes : Finalize(raising) /\ UNCHANGED <<sim_vars, ctor, held, call, alpha_vars>>

\* play() runs on: a step that can be taken is taken
LiveSpec == LiveInit /\ [][LiveNext]_vars /\ WF_vars(LiveNext)

\* action decks of any composition: the decks above, a deck of AUCTION_2 cards only,
\* and a deck without cards
AnyDecks ==
    LiveDecks \cup { <<Count("AUCTION_2", 1)>>, <<Count("AUCTION_1", 0)>> }

AnyDeckConfigs ==
    { c \in [ seed : 0..MaxSeed,
              info_cards_per_player : 0..MaxInfoPerPlayer,
              starting_cash : StartingCash,
              gems_per_suit : 1..MaxGemsPerSuit,
              action_counts : AnyDecks,
              discard_on_all_pass : BOOLEAN,
              skip_auction2_if_insufficient_gems : BOOLEAN ] :
        /\ c.skip_auction2_if_insufficient_gems =>
              \E i \in DOMAIN c.action_counts : c.action_counts[i].kind = "AUCTION_2"
        /\ GemsInPlay(c) >= 0
        /\ GemsInPlay(c) * DeckSize(c) <= MaxLiveTurns }

AnyDeckInit ==
    /\ \E config \in AnyDeckConfigs, chart \in LiveCharts, objectives \in TrinketLists :
          InitEngine(config, chart, objectives, DefaultNames)
    /\ InitPlayVars
    /\ NoSimulation
    /\ NoConstruction
    /\ NoSnapshot
    /\ NoCall
    /\ NoAlphaGem

\* a turn of these decks that is played takes a gem from the row, so TurnLimit turns
\* are never exceeded; a skipped action does not count
AnyDeckNext ==
    \/ PlayStart /\ UNCHANGED <<sim_vars, ctor, held, call, alpha_vars>>
    \/ GameOver /\ UNCHANGED <<sim_vars, ctor, held, call, alpha_vars>>
    \/ SafetyValve /\ UNCHANGED <<sim_vars, ctor, held, call, alpha_vars>>
    \/ \E raising \in HookOutcomes :
          DrawActionWithin(TurnLimit, raising) /\ UNCHANGED <<sim_vars, ctor, held, call, alpha_vars>>
    \/ \E o \in BidOutputs(players[bid_pid % PlayerCount].cash) :
          GetBid(o) /\ UNCHANGED <<sim_vars, ctor, held, call, alpha_vars>>
    \/ Resolve /\ UNCHANGED <<sim_vars, ctor, held, call, alpha_vars>>
    \/ \E raising \in HookOutcomes : Apply(raising) /\ UNCHANGED <<sim_vars, ctor, held, call, alpha_vars>>
    \/ NoReveal /\ UNCHANGED <<sim_vars, ctor, held, call, alpha_vars>>
    \/ \E o \in RevealOutputs(players[Max2(winner_id, 0)].unrevealed_info) :
          Reveal(o) /\ UNCHANGED <<sim_vars, ctor, held, call, alpha_vars>>
    \/ \E raising \in HookOutcomes : Finalize(raising) /\ UNCHANGED <<sim_vars, ctor, held, call, alpha_vars>>

\* play() runs on: a step that can be taken is taken
AnyDeckSpec == AnyDeckInit /\ [][AnyDeckNext]_vars /\ WF_vars(AnyDeckNext)

(***************************************************************************)
(* simulator.py: default_value_chart, generate_all_possible_trinkets,      *)
(* default_trinkets                                                        *)
(***************************************************************************)
default_value_chart == <<0, 4, 8, 12, 16, 20, 24>>

\* itertools.combinations(suits, k) from position `from` on, as index tuples
RECURSIVE Combinations(_, _)
Combinations(from, k) ==
    IF k = 0 THEN << <<>> >>
    ELSE IF from > Len(Suit) THEN <<>>
    ELSE LET with == Combinations(from + 1, k - 1)
         IN [ j \in 1..Len(with) |-> <<from>> \o with[j] ] \o Combinations(from + 1, k)

SuitsAt(idx) == [ i \in 1..Len(idx) |-> Suit[idx[i]] ]

TrinketsOf(prefix, points, combos) ==
    [ j \in 1..Len(combos) |->
        TrinketObjective(<<prefix>> \o SuitsAt(combos[j]), points, Req(SuitsAt(combos[j]))) ]

generate_all_possible_trinkets ==
    TrinketsOf("P2_SAME", PendantPoints, [ i \in 1..Len(Suit) |-> <<i, i>> ])
    \o TrinketsOf("P2_DIFF", PendantPoints, Combinations(1, 2))
    \o TrinketsOf("T3", TriplePoints, Combinations(1, 3))
    \o TrinketsOf("T4", QuadPoints, Combinations(1, 4))

\* random.sample(population, k) for a population larger than 21 and k <= 5: draw an
\* index, draw again while it has been selected
RECURSIVE SampleFrom(_, _, _, _)
SampleFrom(population, k, r, selected) ==
    IF Len(selected) = k
    THEN [list |-> [ i \in 1..k |-> population[selected[i] + 1] ], rng |-> r]
    ELSE LET r2 == RngNext(r)
             j == RandBelow(r2, Len(population))
         IN IF j \in Range(selected) THEN SampleFrom(population, k, r2, selected)
            ELSE SampleFrom(population, k, r2, Append(selected, j))

Sample(population, k, r) == SampleFrom(population, k, r, <<>>)

SamplePoolRepeating(population, k, r) ==
    LET F[i \in 0..k] ==
            IF i = 0 THEN [list |-> <<>>, rng |-> r]
            ELSE LET r2 == RngNext(F[i - 1].rng)
                     j == RandBelow(r2, Len(population) - (i - 1)) + 1
                 IN [list |-> Append(F[i - 1].list, population[j]), rng |-> r2]
    IN F[k]

\* random.sample(population, k) for a population of at most 21: result[i] = pool[j]
\* for j = randbelow(n - i), then pool[j] = pool[n - i - 1]
SamplePool(population, k, r) ==
    LET n == Len(population)
        F[i \in 0..k] ==
            IF i = 0 THEN [list |-> <<>>, pool |-> population, rng |-> r]
            ELSE LET r2 == RngNext(F[i - 1].rng)
                     j == RandBelow(r2, n - (i - 1)) + 1
                     pool == F[i - 1].pool
                 IN [list |-> Append(F[i - 1].list, pool[j]),
                     pool |-> [pool EXCEPT ![j] = pool[n - (i - 1)]],
                     rng |-> r2]
    IN [list |-> F[k].list, rng |-> F[k].rng]

\* default_trinkets(seed=s): random.Random(s).sample(all_trinkets, k=4)
default_trinkets(seed) ==
    Sample(generate_all_possible_trinkets, TrinketSampleSize, RngSeed(seed)).list


(***************************************************************************)
(* game.py: EngineConfig defaults; bots/always_pass_bot.py                 *)
(***************************************************************************)
\* EngineConfig(seed=game_seed), its mappings read at three players
DefaultEngineConfig(seed) ==
    [ seed |-> seed,
      info_cards_per_player |-> 5,
      starting_cash |-> 30,
      gems_per_suit |-> 6,
      action_counts |-> << Count("AUCTION_1", 12), Count("AUCTION_2", 5),
                           Count("LOAN_10", 2), Count("LOAN_20", 2),
                           Count("INVESTMENT_5", 2), Count("INVESTMENT_10", 2) >>,
      discard_on_all_pass |-> FALSE,
      skip_auction2_if_insufficient_gems |-> FALSE ]

\* engine_config_factory(game_seed) of a caller who wants short games
SmallEngineConfig(seed) ==
    [ seed |-> seed,
      info_cards_per_player |-> 1,
      starting_cash |-> 30,
      gems_per_suit |-> 1,
      action_counts |-> << Count("AUCTION_1", 1) >>,
      discard_on_all_pass |-> FALSE,
      skip_auction2_if_insufficient_gems |-> FALSE ]

\* cfg = EngineConfig(seed=game_seed), or engine_config_factory(game_seed)
EngineConfigOf(factory, seed) ==
    IF factory = "default" THEN DefaultEngineConfig(seed) ELSE SmallEngineConfig(seed)

AlwaysPassBot_get_bid == Returned(0)

\* asked only of a winner who holds an unrevealed card
AlwaysPassBot_choose_info_to_reveal(p) == Returned(p.unrevealed_info[1].id)

\* RandomBidBot.get_bid: Bid(0), or Bid(randint(0, min(5, max_bid))) from the bot's own
\* generator, which is seeded by the clock: any of these amounts up to MaxRandomBid
RandomBidBot_get_bid(cash) ==
    { Returned(b) : b \in 0..Min2(MaxRandomBid, Min2(5, Max2(0, cash))) }

\* RandomBidBot.choose_info_to_reveal: any unrevealed card, here the first or the last
RandomBidBot_choose_info_to_reveal(p) ==
    { Returned(p.unrevealed_info[i].id) : i \in {1, Len(p.unrevealed_info)} }

\* what the strategy made by be.factory() answers
BotBids(factory, cash) ==
    IF factory = "AlwaysPassBot" THEN {AlwaysPassBot_get_bid}
    ELSE RandomBidBot_get_bid(cash)

BotReveals(factory, p) ==
    IF factory = "AlwaysPassBot" THEN {AlwaysPassBot_choose_info_to_reveal(p)}
    ELSE RandomBidBot_choose_info_to_reveal(p)

(***************************************************************************)
(* simulator.py: run_pocketrocks_simulation                                *)
(***************************************************************************)
BotEntry(name, factory) == [name |-> name, factory |-> factory]

\* the strategy pools: entries of distinct names, each making the deterministic
\* AlwaysPassBot
AllBots ==
    << BotEntry("A", "AlwaysPassBot"), BotEntry("B", "AlwaysPassBot"),
       BotEntry("C", "AlwaysPassBot"), BotEntry("D", "AlwaysPassBot"),
       BotEntry("E", "AlwaysPassBot"), BotEntry("F", "AlwaysPassBot") >>

BotPools == { SubSeq(AllBots, 1, n) : n \in {2, 3, 4, Len(AllBots)} }

\* the same pool, its first entry now making a RandomBidBot
WithRandomBidBot(bots) == [bots EXCEPT ![1].factory = "RandomBidBot"]

\* if players_per_game is None: players_per_game = len(bots)
PlayersPerGame(ppg, bots) == IF ppg = None THEN Len(bots) ELSE ppg

ArgumentsRaiseRangeOnly(ppg, bots) ==
    ~(MinPlayers <= PlayersPerGame(ppg, bots) /\ PlayersPerGame(ppg, bots) <= MaxPlayers)

\* the two checks that raise ValueError
ArgumentsRaise(ppg, bots) ==
    \/ ~(MinPlayers <= PlayersPerGame(ppg, bots) /\ PlayersPerGame(ppg, bots) <= MaxPlayers)
    \/ Len(bots) < PlayersPerGame(ppg, bots)

\* the calls made here: any pool and players_per_game that raise, and those that play
\* games of PlayerCount players
SimCalls ==
    { c \in [ seed : 0..MaxSeed,
              n_games : 1..MaxGames,
              bots : BotPools,
              players_per_game : {None} \cup ((MinPlayers - 1)..(MaxPlayers + 1)),
              engine_config_factory : {"default", "small"} ] :
        ~ArgumentsRaise(c.players_per_game, c.bots) =>
            PlayersPerGame(c.players_per_game, c.bots) = PlayerCount }

BotStats == [games |-> 0, wins |-> 0, top2 |-> 0, total_score |-> 0,
             scores |-> <<>>, ranks |-> <<>>]

BotNames(entries) == [ i \in 1..Len(entries) |-> entries[i].name ]

\* PocketRocketsEngine(...): the engine of the next game, about to play
StartEngine(config, chart, objectives, names) ==
    LET e == NewEngine(config, chart, objectives, names)
    IN /\ cfg' = config
       /\ rng' = e.rng
       /\ players' = e.players
       /\ gem_draw_pile' = e.gem_draw_pile
       /\ upcoming' = e.upcoming
       /\ action_draw_pile' = e.action_draw_pile
       /\ action_discard' = <<>>
       /\ action_counts_remaining' = e.action_counts_remaining
       /\ seating_order' = e.seating_order
       /\ tiebreak_leader_id' = e.tiebreak_leader_id
       /\ trinkets' = e.trinkets
       /\ value_chart' = chart
       /\ info_counts_by_suit_at_start' = e.info_counts_by_suit_at_start
       /\ past_auctions' = <<>>
       /\ pc' = "play"
       /\ turn_index' = 0
       /\ started' = FALSE
       /\ action' = NoAction
       /\ bids' = [ p \in PlayerIds |-> 0 ]
       /\ bid_pid' = 0
       /\ out' = NoOut
       /\ winner_id' = NoWinner
       /\ winning_bid' = 0
       /\ new_leader' = None
       /\ gem_values' = [ s \in Suits |-> 0 ]
       /\ final_scores' = <<>>
       /\ final_winner_id' = NoWinner
       /\ start_calls' = [ p \in PlayerIds |-> 0 ]
       /\ resolved_calls' = [ p \in PlayerIds |-> 0 ]
       /\ end_calls' = [ p \in PlayerIds |-> 0 ]
       /\ hook_raised' = {}

\* the head of run_pocketrocks_simulation when a check on players_per_game raises:
\* the defaults and the generator are made, no game is played and no factory called
SimCallRaises(entropy) ==
    /\ sim_pc = "call"
    /\ ArgumentsRaise(sim_ppg, sim_bots)
    /\ sim_trinkets' = default_trinkets(entropy)
    /\ sim_rng' = RngSeed(sim_seed)
    /\ sim_pc' = "raised"
    /\ UNCHANGED <<sim_call, sim_seed, sim_n_games, sim_bots, sim_ppg, sim_factory,
                   factory_calls, sim_g, game_seed, participants, per_bot, game_logs,
                   first_logs, first_bots>>
    /\ UNCHANGED <<engine_vars, play_vars, hook_vars>>

\* the head of run_pocketrocks_simulation: the defaults, the generator, the checks
\* on players_per_game, the statistics. default_trinkets() is called with no seed and
\* no generator: random.Random(None) seeds itself from the operating system, here any
\* of the seeds 0..MaxEntropy
SimCall(entropy) ==
    /\ sim_pc = "call"
    /\ ~ArgumentsRaise(sim_ppg, sim_bots)
    /\ sim_trinkets' = default_trinkets(entropy)
    /\ sim_rng' = RngSeed(sim_seed)
    /\ per_bot' = [ n \in Range(BotNames(sim_bots)) |-> BotStats ]
    /\ game_logs' = <<>>
    /\ sim_g' = 0
    /\ factory_calls' = 0
    /\ sim_pc' = "game"
    /\ UNCHANGED <<sim_call, sim_seed, sim_n_games, sim_bots, sim_ppg, sim_factory,
                   game_seed, participants, first_logs, first_bots>>
    /\ UNCHANGED <<engine_vars, play_vars, hook_vars>>

\* for g in range(n_games): the game seed, the participants (the pool, or a sample of
\* it), the seating shuffle, the strategies made by the factories, the engine
SimGameStart ==
    /\ sim_pc = "game"
    /\ sim_g < sim_n_games
    /\ LET r == RngNext(sim_rng)
           seed == RandBelow(r, GameSeedRange)
           k == PlayersPerGame(sim_ppg, sim_bots)
           picked == IF Len(sim_bots) = k THEN [list |-> sim_bots, rng |-> r]
                     ELSE SamplePool(sim_bots, k, r)
           seated == Shuffle(picked.list, picked.rng)
       IN /\ game_seed' = seed
          /\ participants' = seated.list
          /\ sim_rng' = seated.rng
          /\ factory_calls' = factory_calls + Len(seated.list)
          /\ StartEngine(EngineConfigOf(sim_factory, seed), default_value_chart,
                         sim_trinkets, BotNames(seated.list))
    /\ sim_pc' = "playing"
    /\ UNCHANGED <<sim_call, sim_seed, sim_n_games, sim_bots, sim_ppg, sim_factory,
                   sim_trinkets, sim_g, per_bot, game_logs, first_logs, first_bots>>

\* engine.play() with the participants' strategies answering
SimPlay ==
    /\ sim_pc = "playing"
    /\ \/ PlayStart
       \/ GameOver
       \/ SafetyValve
       \/ DrawActionWithin(MaxSimTurns, {})
       \/ \E o \in BotBids(participants[(bid_pid % PlayerCount) + 1].factory,
                           players[bid_pid % PlayerCount].cash) : GetBid(o)
       \/ Resolve
       \/ Apply({})
       \/ NoReveal
       \/ /\ pc = "reveal"
          /\ winner_id >= 0
          /\ players[winner_id].unrevealed_info # <<>>
          /\ \E o \in BotReveals(participants[winner_id + 1].factory, players[winner_id]) :
                Reveal(o)
       \/ Finalize({})
    /\ UNCHANGED <<sim_vars, ctor, held, call, alpha_vars>>

RankOfFirst(scores, pid) == 1

RankOf(scores, pid) == CHOOSE i \in 1..Len(scores) : scores[i].player_id = pid

\* after engine.play(): the statistics of the participants and the game's log entry
SimGameEnd ==
    /\ sim_pc = "playing"
    /\ pc = "done"
    /\ per_bot' =
          [ n \in DOMAIN per_bot |->
              IF \E pid \in PlayerIds : participants[pid + 1].name = n
              THEN LET pid == CHOOSE q \in PlayerIds : participants[q + 1].name = n
                       rank == RankOf(final_scores, pid)
                       score == final_scores[rank].score
                       st == per_bot[n]
                   IN [ games |-> st.games + 1,
                        wins |-> st.wins + (IF pid = final_winner_id THEN 1 ELSE 0),
                        top2 |-> st.top2 + (IF rank <= 2 THEN 1 ELSE 0),
                        total_score |-> st.total_score + score,
                        scores |-> Append(st.scores, score),
                        ranks |-> Append(st.ranks, rank) ]
              ELSE per_bot[n] ]
    /\ game_logs' =
          Append(game_logs,
                 [ game_index |-> sim_g,
                   seed |-> game_seed,
                   seating |-> BotNames(participants),
                   final_scores |-> final_scores,
                   winner |-> final_scores[RankOf(final_scores, final_winner_id)].name ])
    /\ sim_g' = sim_g + 1
    /\ sim_pc' = "game"
    /\ UNCHANGED <<sim_call, sim_seed, sim_n_games, sim_bots, sim_ppg, sim_factory,
                   factory_calls, sim_rng, sim_trinkets, game_seed, participants,
                   first_logs, first_bots>>
    /\ UNCHANGED <<engine_vars, play_vars, hook_vars>>

\* return SimulationResult(per_bot, game_logs); the first call is followed by a second
\* call with the same arguments, or with a RandomBidBot in the same pool when the
\* games are short
SimReturn ==
    /\ sim_pc = "game"
    /\ sim_g = sim_n_games
    /\ IF sim_call = 1
       THEN /\ first_logs' = game_logs
            /\ first_bots' = sim_bots
            /\ sim_call' = 2
            /\ sim_pc' = "call"
            /\ sim_bots' \in {sim_bots} \cup
                  (IF sim_factory = "small" THEN {WithRandomBidBot(sim_bots)} ELSE {})
       ELSE /\ sim_pc' = "returned"
            /\ UNCHANGED <<sim_call, first_logs, first_bots, sim_bots>>
    /\ UNCHANGED <<sim_seed, sim_n_games, sim_ppg, sim_factory, factory_calls, sim_rng,
                   sim_trinkets, sim_g, game_seed, participants, per_bot, game_logs>>
    /\ UNCHANGED <<engine_vars, play_vars, hook_vars>>

\* before the first game no engine exists
NoEngine ==
    /\ cfg = DefaultEngineConfig(0)
    /\ rng = 0
    /\ players = [ p \in PlayerIds |-> NewPlayerState(p, DefaultNames[p + 1], 0, <<>>) ]
    /\ gem_draw_pile = <<>>
    /\ upcoming = <<>>
    /\ action_draw_pile = <<>>
    /\ action_discard = <<>>
    /\ action_counts_remaining = <<>>
    /\ seating_order = <<>>
    /\ tiebreak_leader_id = None
    /\ trinkets = <<>>
    /\ value_chart = default_value_chart
    /\ info_counts_by_suit_at_start = [ s \in Suits |-> 0 ]
    /\ past_auctions = <<>>
    /\ InitPlayVars

SimInit ==
    /\ \E c \in SimCalls :
          /\ sim_seed = c.seed
          /\ sim_n_games = c.n_games
          /\ sim_bots = c.bots
          /\ sim_ppg = c.players_per_game
          /\ sim_factory = c.engine_config_factory
    /\ factory_calls = 0
    /\ first_bots = <<>>
    /\ NoConstruction
    /\ NoSnapshot
    /\ NoCall
    /\ NoAlphaGem
    /\ sim_pc = "call"
    /\ sim_call = 1
    /\ sim_rng = 0
    /\ sim_trinkets = <<>>
    /\ sim_g = 0
    /\ game_seed = 0
    /\ participants = <<>>
    /\ per_bot = <<>>
    /\ game_logs = <<>>
    /\ first_logs = <<>>
    /\ NoEngine

SimNext ==
    \/ \E entropy \in 0..MaxEntropy : SimCallRaises(entropy) /\ UNCHANGED <<ctor, held, call, alpha_vars>>
    \/ \E entropy \in 0..MaxEntropy : SimCall(entropy) /\ UNCHANGED <<ctor, held, call, alpha_vars>>
    \/ SimGameStart /\ UNCHANGED <<ctor, held, call, alpha_vars>>
    \/ SimPlay /\ UNCHANGED <<ctor, held, call, alpha_vars>>
    \/ SimGameEnd /\ UNCHANGED <<ctor, held, call, alpha_vars>>
    \/ SimReturn /\ UNCHANGED <<ctor, held, call, alpha_vars>>

SimSpec == SimInit /\ [][SimNext]_vars

(***************************************************************************)
(* PocketRocketsEngine(...): the constructor called on any configuration   *)
(***************************************************************************)
\* EngineConfig.__post_init__: starting_cash_by_players or {3: 30, 4: 25, 5: 20}
PostInitCash(mapping) ==
    IF DOMAIN mapping = {} THEN (3 :> 30 @@ 4 :> 25 @@ 5 :> 20) ELSE mapping

\* starting_cash_by_players as passed to EngineConfig: nothing, or a cash for some counts
CashMappings == { [ k \in keys |-> 1 ] : keys \in { {}, {3}, {4, 5}, {3, 4, 5} } }

\* the calls PocketRocketsEngine(bots, config, ...): the number of bots, and a config
\* whose info_cards_per_player gives every player count the same number of cards
CtorCalls ==
    [ pc : {"call"},
      n_bots : (MinPlayers - 1)..MaxBots,
      config : [ seed : 0..MaxSeed,
                 starting_cash_by_players : {PostInitCash(m) : m \in CashMappings},
                 info_cards_per_player : 0..MaxInfoPerPlayer,
                 gems_per_suit : 1..MaxGemsPerSuit ] ]

\* if not (3 <= len(bots) <= 5): raise ValueError
PlayerCountRaises(n) == ~(MinPlayers <= n /\ n <= MaxPlayers)

\* starting_cash_by_players.get(n) is None: raise ValueError
StartingCashRaises(mapping, n) == n \notin DOMAIN mapping

DealRaisesAtEqual(gem_deck, needed) == Len(gem_deck) <= needed

\* _deal_info_cards: if len(gem_deck) < needed: raise ValueError
DealRaises(gem_deck, needed) == Len(gem_deck) < needed

ConstructorRaises(n, c) ==
    IF PlayerCountRaises(n) THEN TRUE
    ELSE IF StartingCashRaises(c.starting_cash_by_players, n) THEN TRUE
    ELSE DealRaises(MakeGemDeck(c.gems_per_suit), n * c.info_cards_per_player)

\* the configuration as the engine of n players reads it
ConfigFor(n, c) ==
    [ seed |-> c.seed,
      info_cards_per_player |-> c.info_cards_per_player,
      starting_cash |-> c.starting_cash_by_players[n],
      gems_per_suit |-> c.gems_per_suit,
      action_counts |-> <<Count("AUCTION_1", 1), Count("AUCTION_2", 1)>>,
      discard_on_all_pass |-> FALSE,
      skip_auction2_if_insufficient_gems |-> FALSE ]

\* __init__ raises: there is no engine
ConstructRaises ==
    /\ ctor.pc = "call"
    /\ ConstructorRaises(ctor.n_bots, ctor.config)
    /\ ctor' = [ctor EXCEPT !.pc = "raised"]
    /\ UNCHANGED <<engine_vars, play_vars, hook_vars, sim_vars, held, call, alpha_vars>>

\* __init__ returns: the engine's state is built
ConstructBuilds ==
    /\ ctor.pc = "call"
    /\ ~ConstructorRaises(ctor.n_bots, ctor.config)
    /\ LET config == ConfigFor(ctor.n_bots, ctor.config)
           e == NewEngineFor(ctor.n_bots, config, default_value_chart, <<>>, DefaultNames)
       IN /\ cfg' = config
          /\ rng' = e.rng
          /\ players' = e.players
          /\ gem_draw_pile' = e.gem_draw_pile
          /\ upcoming' = e.upcoming
          /\ action_draw_pile' = e.action_draw_pile
          /\ action_discard' = <<>>
          /\ action_counts_remaining' = e.action_counts_remaining
          /\ seating_order' = e.seating_order
          /\ tiebreak_leader_id' = e.tiebreak_leader_id
          /\ trinkets' = e.trinkets
          /\ value_chart' = default_value_chart
          /\ info_counts_by_suit_at_start' = e.info_counts_by_suit_at_start
          /\ past_auctions' = <<>>
    /\ ctor' = [ctor EXCEPT !.pc = "built"]
    /\ UNCHANGED <<play_vars, hook_vars, sim_vars, held, call, alpha_vars>>

CtorInit ==
    /\ ctor \in CtorCalls
    /\ NoEngine
    /\ NoSimulation
    /\ NoSnapshot
    /\ NoCall
    /\ NoAlphaGem

CtorNext ==
    \/ ConstructRaises
    \/ ConstructBuilds

CtorSpec == CtorInit /\ [][CtorNext]_vars

(***************************************************************************)
(* A 3-player game of five gems in which only player 2 ever bids           *)
(***************************************************************************)
ScenarioDecks ==
    { <<Count("AUCTION_1", 1), Count("AUCTION_2", 1)>>,
      <<Count("AUCTION_1", 1), Count("LOAN_10", 1), Count("INVESTMENT_10", 1)>>,
      <<Count("AUCTION_1", 2)>> }

\* gems_per_suit = 1 and a deal the five gems can cover
ScenarioConfigs ==
    { c \in [ seed : 0..MaxSeed,
              info_cards_per_player : 0..MaxInfoPerPlayer,
              starting_cash : 0..MaxScenarioCash,
              gems_per_suit : {1},
              action_counts : ScenarioDecks,
              discard_on_all_pass : BOOLEAN,
              skip_auction2_if_insufficient_gems : BOOLEAN ] :
        /\ ~DealRaises(MakeGemDeck(c.gems_per_suit), PlayerCount * c.info_cards_per_player)
        /\ c.skip_auction2_if_insufficient_gems =>
              \E i \in DOMAIN c.action_counts : c.action_counts[i].kind = "AUCTION_2" }

ScenarioInit ==
    /\ \E config \in ScenarioConfigs, chart \in LiveCharts, objectives \in TrinketLists :
          InitEngine(config, chart, objectives, DefaultNames)
    /\ InitPlayVars
    /\ NoSimulation
    /\ NoConstruction
    /\ NoSnapshot
    /\ NoCall
    /\ NoAlphaGem

\* get_bid of the three strategies: players 0 and 1 return Bid(0), player 2 returns
\* Bid(1) whenever that is legal, that is whenever it holds cash
ScenarioBid(pid, cash) == IF pid = 2 /\ cash >= 1 THEN Returned(1) ELSE AlwaysPassBot_get_bid

ScenarioNext ==
    \/ PlayStart /\ UNCHANGED <<sim_vars, ctor, held, call, alpha_vars>>
    \/ GameOver /\ UNCHANGED <<sim_vars, ctor, held, call, alpha_vars>>
    \/ \E raising \in HookOutcomes :
          DrawActionWithin(TurnLimit, raising) /\ UNCHANGED <<sim_vars, ctor, held, call, alpha_vars>>
    \/ GetBid(ScenarioBid(bid_pid, players[bid_pid % PlayerCount].cash))
          /\ UNCHANGED <<sim_vars, ctor, held, call, alpha_vars>>
    \/ Resolve /\ UNCHANGED <<sim_vars, ctor, held, call, alpha_vars>>
    \/ \E raising \in HookOutcomes : Apply(raising) /\ UNCHANGED <<sim_vars, ctor, held, call, alpha_vars>>
    \/ NoReveal /\ UNCHANGED <<sim_vars, ctor, held, call, alpha_vars>>
    \/ \E o \in RevealOutputs(players[Max2(winner_id, 0)].unrevealed_info) :
          Reveal(o) /\ UNCHANGED <<sim_vars, ctor, held, call, alpha_vars>>
    \/ \E raising \in HookOutcomes : Finalize(raising) /\ UNCHANGED <<sim_vars, ctor, held, call, alpha_vars>>

ScenarioSpec == ScenarioInit /\ [][ScenarioNext]_vars

(***************************************************************************)
(* One game in which a strategy keeps an observation it was handed         *)
(***************************************************************************)
\* the games of one seed and one chart in which no AUCTION_2 is skipped
ObsConfigs ==
    { c \in EngineConfigs : c.seed = 1 /\ ~c.skip_auction2_if_insufficient_gems }

ObsInit ==
    /\ \E config \in ObsConfigs, chart \in LiveCharts, objectives \in TrinketLists :
          InitEngine(config, chart, objectives, DefaultNames)
    /\ InitPlayVars
    /\ NoSimulation
    /\ NoConstruction
    /\ NoSnapshot
    /\ NoCall
    /\ NoAlphaGem

\* the strategy of player_id keeps the observation its callback `hook` is called with,
\* which the engine built in state st
Hands(player_id, hook, st, t, a) ==
    /\ ~held.taken
    /\ held' = [ taken |-> TRUE, to |-> player_id, hook |-> hook, from |-> st,
                 obs |-> BuildObservation(st, player_id, t, a) ]

Keeps == held' = held

ObsNext ==
    \/ PlayStart /\ Keeps /\ UNCHANGED <<sim_vars, ctor, call, alpha_vars>>
    \/ GameOver /\ Keeps /\ UNCHANGED <<sim_vars, ctor, call, alpha_vars>>
    \/ SafetyValve /\ Keeps /\ UNCHANGED <<sim_vars, ctor, call, alpha_vars>>
    \/ \E raising \in HookOutcomes, keeper \in PlayerIds \cup {None} :
          /\ DrawAction(raising)
          /\ IF keeper = None THEN Keeps
             ELSE /\ pc' = "bid" /\ ~started
                  /\ Hands(keeper, "on_game_start", EngineState', turn_index, action')
          /\ UNCHANGED <<sim_vars, ctor, call, alpha_vars>>
    \/ \E o \in BidOutputs(players[bid_pid % PlayerCount].cash), keep \in BOOLEAN :
          /\ GetBid(o)
          /\ IF keep THEN Hands(bid_pid, "get_bid", EngineState, turn_index, action)
             ELSE Keeps
          /\ UNCHANGED <<sim_vars, ctor, call, alpha_vars>>
    \/ Resolve /\ Keeps /\ UNCHANGED <<sim_vars, ctor, call, alpha_vars>>
    \/ \E raising \in HookOutcomes, keeper \in PlayerIds \cup {None} :
          /\ Apply(raising)
          /\ IF keeper = None THEN Keeps
             ELSE Hands(keeper, "on_auction_resolved", EngineState', turn_index, action)
          /\ UNCHANGED <<sim_vars, ctor, call, alpha_vars>>
    \/ NoReveal /\ Keeps /\ UNCHANGED <<sim_vars, ctor, call, alpha_vars>>
    \/ \E o \in RevealOutputs(players[Max2(winner_id, 0)].unrevealed_info), keep \in BOOLEAN :
          /\ Reveal(o)
          /\ IF keep
             THEN Hands(winner_id, "choose_info_to_reveal", EngineState, turn_index, action)
             ELSE Keeps
          /\ UNCHANGED <<sim_vars, ctor, call, alpha_vars>>
    \/ \E raising \in HookOutcomes, keeper \in PlayerIds \cup {None} :
          /\ Finalize(raising)
          /\ IF keeper = None THEN Keeps
             ELSE Hands(keeper, "on_game_end", EngineState, turn_index, EndAction)
          /\ UNCHANGED <<sim_vars, ctor, call, alpha_vars>>

ObsSpec == ObsInit /\ [][ObsNext]_vars

(***************************************************************************)
(* interface.py: a call of objective_satisfied                             *)
(***************************************************************************)
\* the tuples of at most n suits
RECURSIVE SuitTuples(_)
SuitTuples(n) ==
    IF n = 0 THEN {<<>>}
    ELSE SuitTuples(n - 1)
         \cup {Append(t, s) : t \in {u \in SuitTuples(n - 1) : Len(u) = n - 1}, s \in Suits}

\* objectives of at most MaxRequired required cards, holdings of at most MaxOwned gems
HelperCalls ==
    { [ pc |-> "call", obj |-> TrinketObjective(<<"T">>, PendantPoints, Req(r)),
        gems_owned |-> Req(g) ] :
        r \in SuitTuples(MaxRequired), g \in SuitTuples(MaxOwned) }

HelperInit ==
    /\ call \in HelperCalls
    /\ NoEngine
    /\ NoSimulation
    /\ NoConstruction
    /\ NoSnapshot
    /\ NoAlphaGem

\* objective_satisfied(obj, gems_owned) returns; it assigns to nothing but its locals
ObjectiveSatisfied ==
    /\ call.pc = "call"
    /\ call' = [ pc |-> "returned", obj |-> call.obj, gems_owned |-> call.gems_owned,
                 result |-> objective_satisfied(call.obj, call.gems_owned) ]
    /\ UNCHANGED <<engine_vars, play_vars, hook_vars, sim_vars, ctor, held, alpha_vars>>

HelperNext == ObjectiveSatisfied

HelperSpec == HelperInit /\ [][HelperNext]_vars

(***************************************************************************)
(* alphagem/alpha_gem.py: AlphaGem.encode_input                            *)
(***************************************************************************)
\* _encode_suit: 0 for None or an unknown suit, else 1..5 in the order of Suit
encode_suit(suit) ==
    IF \E i \in 1..Len(Suit) : Suit[i] = suit
    THEN CHOOSE i \in 1..Len(Suit) : Suit[i] = suit
    ELSE 0

\* _count_gems_by_suit: [Ruby, Sapphire, Emerald, Amethyst, Diamond]
count_gems_by_suit(cards) ==
    [ k \in 1..Len(Suit) |->
        Cardinality({i \in 1..Len(cards) : encode_suit(cards[i].suit) = k}) ]

compute_loans_value(loans) == 0 - SumSeq([i \in 1..Len(loans) |-> loans[i].principal])

compute_investments_value(investments) ==
    SumSeq([i \in 1..Len(investments) |-> investments[i].payout + investments[i].locked])

Zeros(n) == [ i \in 1..n |-> 0 ]

\* dict.get(key, default)
MapGet(map, key, default) == IF key \in DOMAIN map THEN map[key] ELSE default

\* the trinket at position i of the four encoded: zeros if claimed or absent
EncodeTrinket(ts, i) ==
    IF i <= Len(ts)
    THEN IF ts[i].claimed_by # None THEN Zeros(Len(Suit))
         ELSE count_gems_by_suit(ts[i].objective.required_cards)
    ELSE Zeros(Len(Suit))

ActionTypesEncoded ==
    <<"AUCTION_1", "AUCTION_2", "LOAN_10", "LOAN_20", "INVESTMENT_5", "INVESTMENT_10">>

\* _encode_game_state, reading self.player_order_map (order_map)
encode_game_state(public_state, context, order_map) ==
    LET ts == public_state.trinkets
        up == context.upcoming_gems
        counts == public_state.action_counts_remaining
    IN EncodeTrinket(ts, 1) \o EncodeTrinket(ts, 2) \o EncodeTrinket(ts, 3)
       \o EncodeTrinket(ts, 4)
       \o << context.biddable_pile_count,
             IF Len(up) > 0 THEN encode_suit(up[1].suit) ELSE 0,
             IF Len(up) > 1 THEN encode_suit(up[2].suit) ELSE 0,
             MapGet(order_map, context.tiebreak_leader_id, 0) >>
       \o (IF counts = NoCounts THEN Zeros(Len(ActionTypesEncoded))
           ELSE [ i \in 1..Len(ActionTypesEncoded) |->
                    MapGet(counts, ActionTypesEncoded[i], 0) ])

\* _encode_model_player raises ValueError: no public player has the private player_id
ModelPlayerMissing(public_state, private_state) ==
    \A i \in DOMAIN public_state.players :
        public_state.players[i].player_id # private_state.player_id

\* _encode_model_player, when the model's player is found
encode_model_player(public_state, private_state) ==
    LET first == CHOOSE i \in DOMAIN public_state.players :
                     /\ public_state.players[i].player_id = private_state.player_id
                     /\ \A j \in 1..(i - 1) :
                           public_state.players[j].player_id # private_state.player_id
        model_player == public_state.players[first]
    IN count_gems_by_suit(private_state.info_cards_revealed)
       \o count_gems_by_suit(private_state.info_cards_unrevealed)
       \o count_gems_by_suit(model_player.gems_owned)
       \o << compute_loans_value(model_player.loans),
             compute_investments_value(model_player.investments),
             model_player.trinket_points,
             model_player.cash >>

\* _encode_opponent_player
encode_opponent_player(player) ==
    count_gems_by_suit(player.revealed_info)
    \o << player.unrevealed_info_count >>
    \o count_gems_by_suit(player.gems_owned)
    \o << compute_loans_value(player.loans),
          compute_investments_value(player.investments),
          player.trinket_points,
          player.cash >>

\* the players at relative index r, in the order of public_state.players
RECURSIVE EncodeAt(_, _, _, _)
EncodeAt(ps, i, r, order_map) ==
    IF i > Len(ps) THEN <<>>
    ELSE (IF MapGet(order_map, ps[i].player_id, -1) = r
          THEN encode_opponent_player(ps[i]) ELSE <<>>)
         \o EncodeAt(ps, i + 1, r, order_map)

\* the opponents (relative index > 0), sorted by relative index; the sort is stable
RECURSIVE EncodeOpponentsFrom(_, _, _)
EncodeOpponentsFrom(ps, r, order_map) ==
    IF \A k \in DOMAIN order_map : order_map[k] < r THEN <<>>
    ELSE EncodeAt(ps, 1, r, order_map) \o EncodeOpponentsFrom(ps, r + 1, order_map)

\* seating_order.index(self_id) raises ValueError
SelfNotSeated(observation) ==
    \A i \in DOMAIN observation.context.seating_order :
        observation.context.seating_order[i] # observation.private.player_id

\* the mapping built from the first observation: player_order_map[pid] = relative_pos,
\* a later entry for the same pid replacing an earlier one
OrderMapOf(observation) ==
    LET seats == observation.context.seating_order
        self_idx == IndexOf(seats, observation.private.player_id)
    IN [ pid \in Range(seats) |->
           LET i == CHOOSE j \in DOMAIN seats :
                        /\ seats[j] = pid
                        /\ \A m \in (j + 1)..Len(seats) : seats[m] # pid
           IN (i - self_idx + Len(seats)) % Len(seats) ]

NextOrderMapRecomputed(current, observation) == Some(OrderMapOf(observation))

\* if self.player_order_map is None: build it; else leave it
NextOrderMap(current, observation) ==
    IF current.none THEN Some(OrderMapOf(observation)) ELSE current

\* the vector encode_input returns; its entries are small integers, which
\* np.array(..., dtype=np.float32) represents exactly
EncodedInput(observation, order_map) ==
    encode_game_state(observation.public, observation.context, order_map)
    \o encode_model_player(observation.public, observation.private)
    \o EncodeOpponentsFrom(observation.public.players, 1, order_map)

\* observations an AlphaGem may be given: three public players, player 1 holding
\* cards and positions, three or four seats, a leader who may be unknown to the map
AlphaSeatings == { <<0, 1, 2>>, <<2, 0, 1>>, <<1, 0, 2, 3>> }

AlphaPlayers ==
    << [ player_id |-> 0, name |-> "Bot0", cash |-> 5, gems_owned |-> <<>>, loans |-> <<>>,
         investments |-> <<>>, revealed_info |-> <<>>, unrevealed_info_count |-> 2,
         trinket_points |-> 0 ],
       [ player_id |-> 1, name |-> "Bot1", cash |-> 11,
         gems_owned |-> Req(<<"RUBY", "EMERALD">>),
         loans |-> <<LoanPosition(0, 10, 1)>>,
         investments |-> <<InvestmentPosition(1, 5, 2)>>,
         revealed_info |-> Req(<<"DIAMOND">>), unrevealed_info_count |-> 1,
         trinket_points |-> PendantPoints ],
       [ player_id |-> 2, name |-> "Bot2", cash |-> 0, gems_owned |-> Req(<<"SAPPHIRE">>),
         loans |-> <<>>, investments |-> <<>>, revealed_info |-> <<>>,
         unrevealed_info_count |-> 2, trinket_points |-> 0 ] >>

AlphaObservations ==
    { [ public |->
          [ num_players |-> Len(AlphaPlayers),
            players |-> AlphaPlayers,
            trinkets |-> << TrinketState(TrinketObjective(<<"P2_DIFF", "RUBY", "EMERALD">>,
                                                          PendantPoints,
                                                          Req(<<"RUBY", "EMERALD">>)), 1),
                            TrinketState(TrinketObjective(<<"P1", "EMERALD">>, TriplePoints,
                                                          Req(<<"EMERALD">>)), None) >>,
            value_chart |-> default_value_chart,
            action_discard |-> <<>>,
            past_auctions |-> <<>>,
            action_counts_remaining |->
                IF pile = 0 THEN NoCounts ELSE InitialCounts(<<Count("AUCTION_1", pile)>>) ],
        private |->
          [ player_id |-> self_id,
            info_cards_unrevealed |-> Req(<<"AMETHYST">>),
            info_cards_revealed |-> Req(<<"DIAMOND">>) ],
        context |->
          [ turn_index |-> 0, action |-> Action(0, "AUCTION_1"),
            upcoming_gems |-> Req(<<"EMERALD">>),
            biddable_pile_count |-> pile,
            tiebreak_leader_id |-> leader,
            seating_order |-> seating ],
        me |-> NoneValue ] :
        seating \in AlphaSeatings, self_id \in 0..MaxPlayers - 2,
        leader \in 0..MaxPlayers - 2, pile \in 0..MaxPile }

\* AlphaGem(): prev_observation = None, player_order_map = None
AlphaInit ==
    /\ player_order_map = NoneValue
    /\ prev_observation = NoneValue
    /\ encoded = NoneValue
    /\ encode_calls = 0
    /\ NoCall
    /\ NoEngine
    /\ NoSimulation
    /\ NoConstruction
    /\ NoSnapshot

\* encode_input(game_observation): it raises at seating_order.index before any
\* assignment, or assigns the map (first time) and prev_observation and then raises
\* in _encode_model_player, or returns the vector
EncodeInput(game_observation) ==
    /\ encode_calls < MaxCalls
    /\ encode_calls' = encode_calls + 1
    /\ IF player_order_map.none /\ SelfNotSeated(game_observation)
       THEN /\ call' = [pc |-> "raised", obs |-> game_observation]
            /\ UNCHANGED <<player_order_map, prev_observation, encoded>>
       ELSE /\ player_order_map' = NextOrderMap(player_order_map, game_observation)
            /\ prev_observation' = Some(game_observation)
            /\ IF ModelPlayerMissing(game_observation.public, game_observation.private)
               THEN /\ call' = [pc |-> "raised", obs |-> game_observation]
                    /\ UNCHANGED encoded
               ELSE /\ call' = [pc |-> "returned", obs |-> game_observation]
                    /\ encoded' = Some(EncodedInput(game_observation,
                                                    player_order_map'.value))
    /\ UNCHANGED <<engine_vars, play_vars, hook_vars, sim_vars, ctor, held>>

AlphaNext == \E game_observation \in AlphaObservations : EncodeInput(game_observation)

AlphaSpec == AlphaInit /\ [][AlphaNext]_vars

(***************************************************************************)
(* Properties                                                              *)
(***************************************************************************)
\* a turn boundary: before play()'s loop, at the loop head, or after the loop
TurnBoundary == pc \in {"play", "loop", "end", "done"}

\* the turn's strategies have all answered and the winner has paid
Resolved == pc = "apply"

TotalGems == Len(Suit) * cfg.gems_per_suit

GemsInZones ==
    Len(gem_draw_pile) + Len(upcoming)
    + SumSeq([i \in 1..PlayerCount |-> Len(players[i - 1].gems_owned)])
    + SumSeq([i \in 1..PlayerCount |->
                 Len(players[i - 1].revealed_info) + Len(players[i - 1].unrevealed_info)])

\* gems auctioned in turns that ended with no winner: they are in no zone any more
GemsDiscarded ==
    SumSeq([i \in 1..Len(past_auctions) |->
               IF past_auctions[i].winner_id < 0
               THEN Len(past_auctions[i].auctioned_gems) ELSE 0])

\* C1 as claimed: at every turn boundary the gems in the facedown pile, the upcoming
\* row, the players' owned gems and the players' info cards number 5 * gems_per_suit.
C1_ConservationAsClaimed == TurnBoundary => GemsInZones = TotalGems

\* C1 amended: at every turn boundary the gems in the zones plus the gems auctioned in
\* no-winner turns number 5 * gems_per_suit; with discard_on_all_pass disabled no gem
\* is ever discarded, so the zones alone hold all of them.
C1_Conservation ==
    TurnBoundary =>
        /\ GemsInZones + GemsDiscarded = TotalGems
        /\ ~cfg.discard_on_all_pass => GemsInZones = TotalGems

C1_Witness ==
    /\ pc = "loop"
    /\ GemsDiscarded > 0
    /\ \E p \in PlayerIds : players[p].gems_owned # <<>>

\* C2: starting cash is non-negative and no player's cash is negative in any state,
\* in particular right after the winner has paid the winning bid.
C2_CashNonNegative == \A p \in PlayerIds : players[p].cash >= 0

C2_Witness ==
    /\ Resolved
    /\ winner_id >= 0
    /\ winning_bid > 0
    /\ players[winner_id].cash = 0

TiedSet == {p \in PlayerIds : bids[p] = MaxBid(bids)}

\* seats passed going clockwise from the seat after the leader until p is reached
ClockwiseDistance(p, leader) == (p - leader - 1 + PlayerCount) % PlayerCount

\* C3: when the tie-break decides a turn (two or more players hold the maximum bid
\* and the turn has a winner), the winner is the tied player nearest clockwise after
\* the tiebreak leader, the leader itself being farthest; the leader wins a tie only
\* if no other player is tied; a sole top bidder wins, also when it is the leader.
C3_TieBreak ==
    (Resolved /\ winner_id >= 0) =>
        /\ winner_id \in TiedSet
        /\ \A q \in TiedSet :
              ClockwiseDistance(winner_id, tiebreak_leader_id)
                  <= ClockwiseDistance(q, tiebreak_leader_id)
        /\ (Cardinality(TiedSet) >= 2 /\ winner_id = tiebreak_leader_id) => FALSE
        /\ (seating_order = <<0, 1, 2>> /\ tiebreak_leader_id = 0) =>
              /\ TiedSet = {1, 2} => winner_id = 1
              /\ TiedSet = {0, 2} => winner_id = 2
              /\ TiedSet = {0} => winner_id = 0

C3_Witness ==
    /\ Resolved
    /\ tiebreak_leader_id = 0
    /\ TiedSet = {0, 2}
    /\ winner_id = 2
    /\ winning_bid > 0

MaxOfResult(r) == MaxBid(r.bids)

\* C4: for every resolved turn, a winner holds the maximum bid and pays exactly it, a
\* sole holder of the maximum bid is the winner, the turn has no winner (winner -1,
\* winning bid 0) exactly if discard_on_all_pass is enabled and all bids are 0, and
\* with discard_on_all_pass disabled the winner is a player id.
C4_Resolution ==
    \A i \in 1..Len(past_auctions) :
        LET r == past_auctions[i]
            top == {p \in PlayerIds : r.bids[p] = MaxOfResult(r)}
        IN /\ r.winner_id >= 0 =>
                 /\ r.winner_id \in PlayerIds
                 /\ r.bids[r.winner_id] = MaxOfResult(r)
                 /\ r.winning_bid = MaxOfResult(r)
           /\ Cardinality(top) = 1 => r.winner_id \in top
           /\ (r.winner_id = NoWinner /\ r.winning_bid = 0)
                 <=> (cfg.discard_on_all_pass /\ \A p \in PlayerIds : r.bids[p] = 0)
           /\ r.winner_id \in PlayerIds \cup {NoWinner}
           /\ ~cfg.discard_on_all_pass => r.winner_id \in PlayerIds

C4_Witness ==
    /\ Len(past_auctions) = 2
    /\ past_auctions[1].winner_id = NoWinner
    /\ past_auctions[2].winner_id >= 0
    /\ past_auctions[2].winning_bid > 0

InRange(o, cash) == ~o.raised /\ 0 <= o.value /\ o.value <= cash

\* C5: in bid collection the answer of the strategy asked is that player's bid if it
\* is an amount a with 0 <= a <= cash, and the bid is 0 if the strategy raised or
\* the amount is out of range; no other player's bid and no player state changes,
\* and bid collection goes on.
C5_BidLegalization ==
    [][ (pc = "bid" /\ bid_pid' = bid_pid + 1) =>
           /\ bids'[bid_pid] = (IF InRange(out', players[bid_pid].cash)
                                THEN out'.value ELSE 0)
           /\ (bids'[bid_pid] = out'.value /\ ~out'.raised)
                 <=> InRange(out', players[bid_pid].cash)
           /\ \A q \in PlayerIds \ {bid_pid} : bids'[q] = bids[q]
           /\ players' = players
           /\ pc' = "bid" ]_vars

C5_Witness ==
    /\ pc = "bid"
    /\ bid_pid = 2
    /\ out.raised
    /\ players[0].cash >= 1
    /\ bids[0] = players[0].cash
    /\ past_auctions # <<>>

Finished == pc = "done"

ScoreOf(p) ==
    LET i == CHOOSE j \in 1..Len(final_scores) : final_scores[j].player_id = p
    IN final_scores[i].score

\* info cards of suit s in the players' hands, revealed or not
InfoCardsDealt(s) ==
    Cardinality({<<p, i>> \in PlayerIds \X (1..(Len(Suit) * cfg.gems_per_suit)) :
                    /\ i <= Len(players[p].unrevealed_info)
                    /\ players[p].unrevealed_info[i].suit = s})
    + Cardinality({<<p, i>> \in PlayerIds \X (1..(Len(Suit) * cfg.gems_per_suit)) :
                    /\ i <= Len(players[p].revealed_info)
                    /\ players[p].revealed_info[i].suit = s})

GemWorth(p) ==
    SumSeq([k \in 1..Len(Suit) |-> CountSuit(players[p].gems_owned, Suit[k]) * gem_values[Suit[k]]])

\* C7: when the game has ended every player is ranked with the score cash + value of
\* the owned gems + payout and locked amount of every investment - principal of every
\* loan + trinket points; the value of a gem is the chart entry at the number of info
\* cards of its suit in the players' hands, revealed or not, which is the number dealt
\* at game start (a number past the end of the chart is the subject of C8).
C7_ScoreFormula ==
    Finished =>
        /\ \A p \in PlayerIds :
              ScoreOf(p) =
                  players[p].cash + GemWorth(p)
                  + SumSeq([i \in 1..Len(players[p].investments) |-> players[p].investments[i].payout])
                  + SumSeq([i \in 1..Len(players[p].investments) |-> players[p].investments[i].locked])
                  - SumSeq([i \in 1..Len(players[p].loans) |-> players[p].loans[i].principal])
                  + players[p].trinket_points
        /\ \A s \in Suits :
              /\ InfoCardsDealt(s) = info_counts_by_suit_at_start[s]
              /\ InfoCardsDealt(s) < Len(value_chart) =>
                    gem_values[s] = value_chart[InfoCardsDealt(s) + 1]

\* an ended game in which a player with a loan owns a gem worth something and a card
\* of that gem's suit has been revealed
C7_Witness ==
    /\ Finished
    /\ \E p \in PlayerIds :
          /\ players[p].loans # <<>>
          /\ GemWorth(p) > 0
          /\ \E q \in PlayerIds, i \in 1..Len(Suit) * cfg.gems_per_suit :
                /\ i <= Len(players[q].revealed_info)
                /\ CountSuit(players[p].gems_owned, players[q].revealed_info[i].suit) > 0

ClampedIndex(count, len) == Min2(Max2(count, 0), len - 1)

\* C8 as claimed: the per-gem value of every suit used in scoring is the chart entry at
\* the number of info cards of that suit dealt, clamped to the chart's index range.
C8_ClampedValue ==
    Finished =>
        \A s \in Suits :
            gem_values[s] =
                value_chart[ClampedIndex(info_counts_by_suit_at_start[s], Len(value_chart)) + 1]

ClaimedBy(i) == trinkets[i].claimed_by

\* C9: the claimed_by of a trinket changes only from None to a player id, and once it
\* is a player id it stays that player id in every later state.
C9_TrinketMonotone ==
    [][ \A i \in 1..Len(trinkets) :
           /\ Len(trinkets') = Len(trinkets)
           /\ trinkets'[i].objective = trinkets[i].objective
           /\ ClaimedBy(i) # None => trinkets'[i].claimed_by = ClaimedBy(i)
           /\ trinkets'[i].claimed_by # ClaimedBy(i) =>
                 (ClaimedBy(i) = None /\ trinkets'[i].claimed_by \in PlayerIds) ]_vars

\* a turn won by a player whose gems satisfy a trinket another player has claimed
C9_Witness ==
    /\ pc = "reveal"
    /\ winner_id >= 0
    /\ \E i \in 1..Len(trinkets) :
          /\ ClaimedBy(i) \in PlayerIds \ {winner_id}
          /\ objective_satisfied(trinkets[i].objective, players[winner_id].gems_owned)

\* the owned gems hold every required suit as often as the objective requires it
Holds(gems, obj) ==
    \A c \in Range(obj.required_cards) :
        Cardinality({i \in 1..Len(gems) : gems[i].suit = c.suit})
            >= Cardinality({i \in 1..Len(obj.required_cards) : obj.required_cards[i].suit = c.suit})

PointsClaimedBy(ts, p) ==
    SumSeq([i \in 1..Len(ts) |-> IF ts[i].claimed_by = p THEN ts[i].objective.points ELSE 0])

IdsClaimedNow(old, new) ==
    LET hit == {i \in 1..Len(new) : new[i].claimed_by # old[i].claimed_by}
        F[i \in 0..Len(new)] ==
            IF i = 0 THEN <<>>
            ELSE IF i \in hit THEN Append(F[i - 1], new[i].objective.id) ELSE F[i - 1]
    IN F[Len(new)]

\* C10: a trinket is claimed only in the trinket check of a turn, by that turn's
\* winner, whose owned gems then satisfy its objective; the turn's result names the
\* trinkets claimed in it in declaration order; and each player's trinket_points is
\* the sum of the points of the trinkets claimed by that player.
C10_TrinketClaiming ==
    [][ /\ \A i \in 1..Len(trinkets) :
              trinkets'[i].claimed_by # ClaimedBy(i) =>
                  /\ pc = "apply" /\ pc' = "reveal"
                  /\ winner_id >= 0
                  /\ trinkets'[i].claimed_by = winner_id
                  /\ Holds(players'[winner_id].gems_owned, trinkets[i].objective)
        /\ (pc = "apply" /\ pc' = "reveal") =>
              Last(past_auctions').trinkets_claimed = IdsClaimedNow(trinkets, trinkets')
        /\ \A p \in PlayerIds :
              players'[p].trinket_points = PointsClaimedBy(trinkets', p) ]_vars

\* a turn in which the winner claimed two trinkets, having claimed none before
C10_Witness ==
    /\ pc = "reveal"
    /\ winner_id >= 0
    /\ Len(Last(past_auctions).trinkets_claimed) = 2
    /\ Len(past_auctions) = 2
    /\ past_auctions[1].trinkets_claimed = <<>>
    /\ past_auctions[1].winner_id = winner_id

SecondCallReturned == sim_pc = "returned" /\ sim_call = 2

\* C6 as claimed: a second call of run_pocketrocks_simulation with the same seed, pool
\* and n_games, everything else left at its default, returns the game_logs of the first.
C6_SameLogs == (SecondCallReturned /\ sim_bots = first_bots) => game_logs = first_logs

GemsLeft == Len(upcoming) + Len(gem_draw_pile)

\* the turns of the pass through the action deck that is under way: one per card
\* on the discard pile, the latest last
PassTurns ==
    { k \in 1..Len(past_auctions) : k > Len(past_auctions) - Len(action_discard) }

\* a pass through the action deck is complete: every card is on the discard pile
PassComplete == pc = "loop" /\ action_draw_pile = <<>> /\ action_discard # <<>>

\* a complete pass held every card of the deck and an AUCTION_1 turn that took a gem
PassTakesGem ==
    PassComplete =>
        /\ Len(action_discard) = DeckSize(cfg)
        /\ \E k \in PassTurns : /\ past_auctions[k].action.kind = "AUCTION_1"
                                /\ Len(past_auctions[k].auctioned_gems) = 1

\* C11: an engine whose action deck holds an AUCTION_1 card ends its game and returns
\* the scores, whatever the bids, the reveal choices and the policy flags; while gems
\* remain the upcoming row is not empty, every AUCTION_1 turn takes exactly one gem
\* out of play, and every complete pass through the deck holds such a turn.
C11_Termination ==
    /\ <>(pc = "done" /\ GemsLeft = 0)
    /\ [](pc \in {"loop", "bid", "apply"} => (GemsLeft > 0 => upcoming # <<>>))
    /\ [][(pc = "apply" /\ action.kind = "AUCTION_1") => GemsLeft' = GemsLeft - 1]_vars
    /\ [](PassTakesGem)

C11_Witness ==
    /\ pc = "done"
    /\ \E i, j \in 1..Len(past_auctions) :
          i < j /\ past_auctions[i].action.id = past_auctions[j].action.id
    /\ \E i \in 1..Len(past_auctions) : past_auctions[i].winner_id = NoWinner

\* every gem card of the zones, zone after zone
ZoneCards ==
    LET F[i \in 0..PlayerCount] ==
            IF i = 0 THEN gem_draw_pile \o upcoming
            ELSE F[i - 1] \o players[i - 1].gems_owned \o players[i - 1].revealed_info
                         \o players[i - 1].unrevealed_info
    IN F[PlayerCount]

NoCardTwice(cards) == \A i, j \in 1..Len(cards) : cards[i].id = cards[j].id => i = j

\* a strategy callback of the step just taken raised
Faulted == hook_raised # {} \/ out = Raised

SameCalls(calls) == \A p, q \in PlayerIds : calls[p] = calls[q]

\* C12: after a strategy callback raises, the game still ends with the scores; the
\* raising get_bid counts as a bid of 0; every strategy has received each hook as often
\* as every other; no player's cash is negative, no card is in two zones, each
\* trinket_points is the sum of the trinkets claimed, and a trinket changes hands
\* only in the trinket check of a turn.
C12_FaultIsolation ==
    /\ Faulted ~> (pc = "done" /\ Len(final_scores) = PlayerCount)
    /\ [](SameCalls(start_calls) /\ SameCalls(resolved_calls) /\ SameCalls(end_calls))
    /\ []((pc = "bid" /\ out = Raised) => bids[bid_pid - 1] = 0)
    /\ [](/\ \A p \in PlayerIds : players[p].cash >= 0
          /\ NoCardTwice(ZoneCards)
          /\ \A p \in PlayerIds : players[p].trinket_points = PointsClaimedBy(trinkets, p))
    /\ [][trinkets' # trinkets => (pc = "apply" /\ winner_id >= 0)]_vars

\* the second strategy raised in on_auction_resolved, after a get_bid had raised in
\* the same turn, and the winner's choose_info_to_reveal raises next
C12_Witness ==
    /\ pc = "reveal"
    /\ hook_raised = {1}
    /\ resolved_calls[2] > 0
    /\ winner_id >= 0
    /\ players[winner_id].unrevealed_info # <<>>
    /\ \E p \in PlayerIds : start_calls[p] > 0

\* C13: in every game each strategy's on_game_start is called exactly once, before
\* its first get_bid, and its on_game_end exactly once, after the last turn's
\* on_auction_resolved and reveal; nothing is called after on_game_end.
C13_LifecycleHooks ==
    /\ [](pc = "done" => \A p \in PlayerIds : start_calls[p] = 1 /\ end_calls[p] = 1)
    /\ [](pc \in {"bid", "apply", "reveal"} => \A p \in PlayerIds : start_calls[p] = 1)
    /\ [](pc # "done" => \A p \in PlayerIds : end_calls[p] = 0)
    /\ [][pc # "done"]_vars

\* C14: the turn's step that records the result makes the turn's winner the tiebreak
\* leader, or leaves the leader as it was when the turn has no winner, and writes that
\* leader into the result; no other step changes the leader, so the next turn's
\* context shows the leader of the previous result; the leader is a player id.
C14_LeaderUpdate ==
    /\ [](tiebreak_leader_id \in PlayerIds)
    /\ []((past_auctions # <<>> /\ pc \in {"loop", "bid", "reveal", "end", "done"}) =>
             tiebreak_leader_id = Last(past_auctions).new_tiebreak_leader_id)
    /\ [][IF pc = "apply"
          THEN /\ tiebreak_leader_id' =
                     (IF winner_id >= 0 THEN winner_id ELSE tiebreak_leader_id)
               /\ Last(past_auctions').new_tiebreak_leader_id = tiebreak_leader_id'
          ELSE tiebreak_leader_id' = tiebreak_leader_id]_vars

\* a turn without a winner was resolved after a turn that had changed the leader
C14_Witness ==
    /\ pc = "reveal"
    /\ Len(past_auctions) = 2
    /\ past_auctions[1].winner_id >= 0
    /\ past_auctions[2].winner_id = NoWinner
    /\ tiebreak_leader_id = past_auctions[1].winner_id

InfoHeld(p) == Len(players[p].revealed_info) + Len(players[p].unrevealed_info)

\* the winner's card named by the answer o, or the winner's first unrevealed card
NamedCard(unrevealed, o) ==
    IF ~o.raised /\ \E i \in 1..Len(unrevealed) : unrevealed[i].id = o.value
    THEN CHOOSE c \in Range(unrevealed) : c.id = o.value
    ELSE unrevealed[1]

\* the step after a turn moved card c of winner w, and nothing else of any player
MovedOne(w, c) ==
    /\ players'[w].revealed_info = Append(players[w].revealed_info, c)
    /\ Len(players'[w].unrevealed_info) = Len(players[w].unrevealed_info) - 1
    /\ Range(players'[w].unrevealed_info) = Range(players[w].unrevealed_info) \ {c}
    /\ \A i, j \in 1..Len(players'[w].unrevealed_info) :
          i < j => IndexOf(players[w].unrevealed_info, players'[w].unrevealed_info[i])
                     < IndexOf(players[w].unrevealed_info, players'[w].unrevealed_info[j])
    /\ players' = [players EXCEPT ![w].revealed_info = players'[w].revealed_info,
                                  ![w].unrevealed_info = players'[w].unrevealed_info]

\* C15: the step that closes a turn whose winner holds an unrevealed info card moves
\* exactly one card from the winner's unrevealed list to the end of the winner's
\* revealed list: the card the strategy named if the winner holds it unrevealed, the
\* first unrevealed card otherwise (unknown id, or the strategy raised); no other
\* step changes a player's info cards; revealed and unrevealed cards together always
\* number the cards dealt to the player.
C15_RevealOnWin ==
    /\ [](\A p \in PlayerIds : InfoHeld(p) = cfg.info_cards_per_player)
    /\ [][IF pc = "reveal" /\ winner_id >= 0
          THEN IF players[winner_id].unrevealed_info # <<>>
               THEN MovedOne(winner_id, NamedCard(players[winner_id].unrevealed_info, out'))
               ELSE players' = players
          ELSE \A p \in PlayerIds :
                  /\ players'[p].revealed_info = players[p].revealed_info
                  /\ players'[p].unrevealed_info = players[p].unrevealed_info]_vars

\* a winner holding two or more unrevealed cards has revealed the card it named
C15_Witness ==
    /\ pc = "loop"
    /\ winner_id >= 0
    /\ ~out.raised
    /\ players[winner_id].unrevealed_info # <<>>
    /\ players[winner_id].revealed_info # <<>>
    /\ Last(players[winner_id].revealed_info).id = out.value

\* C16: every gem card of the facedown pile, the upcoming row, the players' owned
\* gems and the players' revealed and unrevealed info cards is a card of the gem deck,
\* and no card id is met twice, neither in two zones nor twice in one zone.
C16_ZoneExclusivity ==
    /\ NoCardTwice(ZoneCards)
    /\ \A i \in 1..Len(ZoneCards) :
          /\ ZoneCards[i].id \in 0..(TotalGems - 1)
          /\ ZoneCards[i] = MakeGemDeck(cfg.gems_per_suit)[ZoneCards[i].id + 1]

\* cards in all five kinds of zone at once, after a turn that moved a gem
C16_Witness ==
    /\ pc = "loop"
    /\ gem_draw_pile # <<>>
    /\ upcoming # <<>>
    /\ \E p \in PlayerIds : players[p].gems_owned # <<>>
    /\ \E p \in PlayerIds : players[p].revealed_info # <<>> /\ players[p].unrevealed_info # <<>>

\* C17: the constructor raises, and there is no engine, when the number of bots is
\* outside 3..5, when the configuration has no starting cash for that number, or
\* when the gem deck holds fewer cards than the deal needs; it builds the engine
\* when the deck holds exactly the cards of the deal, and then the upcoming row and
\* the facedown pile are empty and every card is in a hand.
C17_ConstructionErrors ==
    ctor.pc \in {"raised", "built"} =>
        LET n == ctor.n_bots
            cards == Len(Suit) * ctor.config.gems_per_suit
            needed == n * ctor.config.info_cards_per_player
            configured == n \in DOMAIN ctor.config.starting_cash_by_players
        IN /\ (n < 3 \/ n > 5 \/ ~configured \/ cards < needed) =>
                 /\ ctor.pc = "raised"
                 /\ action_draw_pile = <<>> /\ trinkets = <<>>
           /\ (n \in 3..5 /\ configured /\ cards = needed) =>
                 /\ ctor.pc = "built"
                 /\ upcoming = <<>> /\ gem_draw_pile = <<>>
                 /\ DOMAIN players = 0..(n - 1)
                 /\ \A p \in DOMAIN players :
                       Len(players[p].unrevealed_info) = ctor.config.info_cards_per_player

\* an engine of five players built from a deck that the deal uses up
C17_Witness ==
    /\ ctor.pc = "built"
    /\ ctor.n_bots = MaxPlayers
    /\ ctor.config.info_cards_per_player > 0
    /\ Len(Suit) * ctor.config.gems_per_suit = ctor.n_bots * ctor.config.info_cards_per_player

\* the call's players_per_game is outside 3..5 or asks for more bots than the pool has
BadArguments ==
    LET k == IF sim_ppg = None THEN Len(sim_bots) ELSE sim_ppg
    IN k < 3 \/ k > 5 \/ Len(sim_bots) < k

\* C18: a call of run_pocketrocks_simulation whose players_per_game (the pool size by
\* default) is outside 3..5, or whose pool is smaller than players_per_game, raises
\* with no factory called, no game played and no engine made; any other call does
\* not raise there.
C18_ArgumentValidation ==
    sim_pc \in {"raised", "game", "playing", "returned"} =>
        IF BadArguments
        THEN /\ sim_pc = "raised"
             /\ factory_calls = 0
             /\ sim_g = 0 /\ game_logs = <<>> /\ participants = <<>>
             /\ pc = "play" /\ action_draw_pile = <<>> /\ past_auctions = <<>>
        ELSE sim_pc # "raised"

\* a call that left players_per_game out and gave a pool of six has raised
C18_Witness ==
    /\ sim_pc = "raised"
    /\ sim_ppg = None
    /\ Len(sim_bots) > 5

\* the sum over the pool of one counter of the statistics
Total(counter) ==
    SumSeq([ i \in 1..Len(sim_bots) |->
               IF counter = "games" THEN per_bot[sim_bots[i].name].games
               ELSE IF counter = "wins" THEN per_bot[sim_bots[i].name].wins
               ELSE per_bot[sim_bots[i].name].top2 ])

\* C19: after the games played so far by a call, each of k players drawn from a pool
\* of distinct names, the games counters sum to k times the number of games, the wins
\* to the number of games and the top2 counters to twice that; each strategy has
\* one score and one rank per game it played, and wins <= top2 <= games; game_logs
\* has one entry per game, with game_index 0, 1, ... in order.
C19_Aggregates ==
    sim_pc \in {"game", "playing", "returned"} =>
        /\ Total("games") = sim_g * PlayersPerGame(sim_ppg, sim_bots)
        /\ Total("wins") = sim_g
        /\ Total("top2") = 2 * sim_g
        /\ \A n \in DOMAIN per_bot :
              /\ Len(per_bot[n].scores) = per_bot[n].games
              /\ Len(per_bot[n].ranks) = per_bot[n].games
              /\ per_bot[n].wins <= per_bot[n].top2
              /\ per_bot[n].top2 <= per_bot[n].games
              /\ per_bot[n].total_score = SumSeq(per_bot[n].scores)
        /\ Len(game_logs) = sim_g
        /\ \A i \in 1..Len(game_logs) : game_logs[i].game_index = i - 1

\* a call has returned after two games, whose players were drawn from a larger pool,
\* and one strategy of the pool played in one of them only
C19_Witness ==
    /\ sim_pc = "returned"
    /\ sim_g = 2
    /\ Len(sim_bots) > PlayersPerGame(sim_ppg, sim_bots)
    /\ \E n \in DOMAIN per_bot : per_bot[n].games = 1

SeedsAndSeatings(logs) ==
    [ i \in 1..Len(logs) |-> [seed |-> logs[i].seed, seating |-> logs[i].seating] ]

\* C20: the seed and the seating of every game in game_logs are those of the first
\* call with the same seed, pool order, n_games and players_per_game, whatever the
\* strategies of the pool do and whatever trinkets are drawn; and every seating
\* names players_per_game distinct entries of the pool.
C20_StrategyIndependentSampling ==
    /\ sim_call = 2 /\ sim_pc \in {"game", "playing", "returned"} =>
          SeedsAndSeatings(game_logs)
              = SubSeq(SeedsAndSeatings(first_logs), 1, Len(game_logs))
    /\ \A i \in 1..Len(game_logs) :
          LET seating == game_logs[i].seating
          IN /\ Len(seating) = PlayersPerGame(sim_ppg, sim_bots)
             /\ \A j \in 1..Len(seating) : \E b \in 1..Len(sim_bots) : sim_bots[b].name = seating[j]
             /\ \A j, k \in 1..Len(seating) : seating[j] = seating[k] => j = k

\* the second call, with a RandomBidBot in the pool, has returned other final scores
\* than the first call did, for games of players sampled from a larger pool
C20_Witness ==
    /\ sim_pc = "returned"
    /\ sim_call = 2
    /\ sim_bots # first_bots
    /\ Len(sim_bots) > PlayersPerGame(sim_ppg, sim_bots)
    /\ Len(game_logs) = 2
    /\ game_logs[1].final_scores # first_logs[1].final_scores
    /\ game_logs[1].seating # game_logs[2].seating

\* C21: when the game has ended final_scores lists every player exactly once, in
\* non-increasing order of score, players of equal score in increasing player id, and
\* winner_id is the first entry: the lowest player id among the players of maximum score.
C21_Ranking ==
    Finished =>
        /\ Len(final_scores) = PlayerCount
        /\ \A p \in PlayerIds :
              Cardinality({i \in 1..Len(final_scores) : final_scores[i].player_id = p}) = 1
        /\ \A i \in 1..Len(final_scores) :
              final_scores[i].score
                  = ComputeScore(players[final_scores[i].player_id], gem_values)
        /\ \A i, j \in 1..Len(final_scores) :
              i < j =>
                  /\ final_scores[i].score >= final_scores[j].score
                  /\ final_scores[i].score = final_scores[j].score =>
                        final_scores[i].player_id < final_scores[j].player_id
        /\ final_winner_id = final_scores[1].player_id
        /\ \A p \in PlayerIds : ScoreOf(p) <= ScoreOf(final_winner_id)
        /\ \A p \in PlayerIds :
              ScoreOf(p) = ScoreOf(final_winner_id) => final_winner_id <= p

\* an ended game whose two best players are tied above the third, player 0 being last
C21_Witness ==
    /\ Finished
    /\ final_scores[1].score = final_scores[2].score
    /\ final_scores[2].score > final_scores[3].score
    /\ final_winner_id = 1
    /\ final_scores[3].player_id = 0

\* no player holds a loan, an investment or trinket points
NothingButCashAndGems ==
    \A p \in PlayerIds :
        /\ players[p].loans = <<>>
        /\ players[p].investments = <<>>
        /\ players[p].trinket_points = 0

\* C22: in an ended game in which no player holds a loan, an investment or trinket
\* points and the gem value of every suit is 0, every player's score is exactly that
\* player's final cash.
C22_ScoreIsCash ==
    (Finished /\ NothingButCashAndGems /\ \A s \in Suits : gem_values[s] = 0) =>
        \A p \in PlayerIds : ScoreOf(p) = players[p].cash

\* such a game, in which a player has paid all its cash for a gem
C22_Witness ==
    /\ Finished /\ NothingButCashAndGems /\ \A s \in Suits : gem_values[s] = 0
    /\ \E p \in PlayerIds :
          /\ players[p].gems_owned # <<>>
          /\ players[p].cash = 0
          /\ ScoreOf(p) = 0
    /\ \E q \in PlayerIds : ScoreOf(q) > 0

AuctionKinds == {"AUCTION_1", "AUCTION_2"}

\* _resolve_winner is about to settle an Auction1/Auction2 turn
AuctionResolving == pc = "bid" /\ pc' = "apply" /\ action.kind \in AuctionKinds

\* the first player clockwise after the leader, in the seating 0, 1, 2
NextClockwise(leader) == (leader + 1) % PlayerCount

\* C23 as claimed: while player 2 holds cash it wins every Auction1/Auction2 turn; once
\* its cash is 0 all bids are 0 and every such turn is won by the first player clockwise
\* after the current leader.
C23_ScenarioAsClaimed ==
    [][ AuctionResolving =>
           IF players[2].cash >= 1
           THEN winner_id' = 2 /\ winning_bid' = 1
           ELSE /\ \A p \in PlayerIds : bids[p] = 0
                /\ winner_id' = NextClockwise(tiebreak_leader_id) ]_vars

\* C23 amended: while player 2 holds cash it wins every Auction1/Auction2 turn with its
\* bid of 1; once its cash is 0 all bids are 0, and every such turn is won by the
\* first player clockwise after the current leader if discard_on_all_pass is disabled
\* and has no winner if it is enabled.
C23_Scenario ==
    [][ AuctionResolving =>
           IF players[2].cash >= 1
           THEN winner_id' = 2 /\ winning_bid' = 1
           ELSE /\ \A p \in PlayerIds : bids[p] = 0
                /\ winning_bid' = 0
                /\ winner_id' = IF cfg.discard_on_all_pass THEN NoWinner
                                ELSE NextClockwise(tiebreak_leader_id) ]_vars

\* player 2 has won a gem with its last cash, and the auction after that has been won
\* at 0 by the player after the leader, who is player 0
C23_Witness ==
    /\ pc = "apply" /\ action.kind \in AuctionKinds
    /\ Len(past_auctions) >= 1
    /\ Last(past_auctions).winner_id = 2 /\ Last(past_auctions).winning_bid = 1
    /\ Last(past_auctions).action.kind \in AuctionKinds
    /\ players[2].cash = 0
    /\ \A p \in PlayerIds : bids[p] = 0
    /\ tiebreak_leader_id = 2
    /\ winner_id = 0

\* the engine state st with the unrevealed cards of every player but i replaced by
\* other cards of the deck, as many as before
OtherHandsShifted(st, i, k) ==
    LET deck == MakeGemDeck(cfg.gems_per_suit)
        other(c) == deck[((c.id + k) % Len(deck)) + 1]
    IN [ st EXCEPT !.players =
           [ p \in DOMAIN st.players |->
               IF p = i THEN st.players[p]
               ELSE [ st.players[p] EXCEPT !.unrevealed_info =
                        [ n \in 1..Len(st.players[p].unrevealed_info) |->
                            other(st.players[p].unrevealed_info[n]) ] ] ] ]

PublicOf(o, j) ==
    o.public.players[CHOOSE n \in DOMAIN o.public.players : o.public.players[n].player_id = j]

\* C24: an observation handed to player i holds in its private part exactly i's own
\* unrevealed and revealed info cards; for every player j its unrevealed_info_count is
\* the length of j's unrevealed list; and it is the same observation whatever the
\* identity of the other players' unrevealed cards.
C24_PrivateInformation ==
    held.taken =>
        LET i == held.to
            st == held.from
            o == held.obs
        IN /\ o.private.player_id = i
           /\ o.private.info_cards_unrevealed = st.players[i].unrevealed_info
           /\ o.private.info_cards_revealed = st.players[i].revealed_info
           /\ o.me = PublicOf(o, i)
           /\ \A j \in PlayerIds :
                 PublicOf(o, j).unrevealed_info_count = Len(st.players[j].unrevealed_info)
           /\ \A k \in 0..(TotalGems - 1) :
                 BuildObservation(OtherHandsShifted(st, i, k), i, o.context.turn_index,
                                  o.context.action) = o

\* player 1 is handed an observation in the second turn, when it and the others
\* hold unrevealed cards and a card has been revealed
C24_Witness ==
    /\ held.taken /\ held.to = 1 /\ held.hook = "get_bid"
    /\ held.obs.context.turn_index = 1
    /\ \A j \in PlayerIds : Len(held.from.players[j].unrevealed_info) >= 1
    /\ Len(held.from.players[0].unrevealed_info) # Len(held.from.players[2].unrevealed_info)
    /\ \E k \in 1..(TotalGems - 1) : OtherHandsShifted(held.from, 1, k) # held.from

\* C25: an observation a strategy has kept shows, in every later state of the engine,
\* the values it was built with: cash, gems, loans, investments, info cards, trinket
\* states, action history and remaining-action counts, and everything else in it.
C25_SnapshotIsolation ==
    held.taken =>
        /\ Seen(held.obs, EngineState) = held.obs
        /\ held.obs = BuildObservation(held.from, held.to, held.obs.context.turn_index,
                                       held.obs.context.action)

\* the observation of the first get_bid is still held turns later, its holder having
\* since paid for a loan or an investment and revealed a card, and a player having
\* won a gem and claimed a trinket
C25_Witness ==
    /\ held.taken /\ held.hook = "get_bid" /\ held.obs.context.turn_index = 0
    /\ pc = "loop" /\ turn_index = MaxTurns
    /\ LET me == players[held.to]
           o == held.obs
       IN /\ me.cash # o.me.cash
          /\ me.loans # o.me.loans \/ me.investments # o.me.investments
          /\ \E q \in PlayerIds :
                /\ players[q].gems_owned # PublicOf(o, q).gems_owned
                /\ players[q].trinket_points # PublicOf(o, q).trinket_points
          /\ me.unrevealed_info # o.private.info_cards_unrevealed
          /\ me.revealed_info # o.private.info_cards_revealed
          /\ trinkets # o.public.trinkets
          /\ past_auctions # o.public.past_auctions
          /\ action_discard # o.public.action_discard
          /\ action_counts_remaining # o.public.action_counts_remaining
          /\ upcoming # o.context.upcoming_gems

\* the rearrangements of a tuple
Rearranged(t) == { [ i \in 1..Len(t) |-> t[p[i]] ] : p \in Permutations(1..Len(t)) }

OwnedOfSuit(gems, s) == Cardinality({i \in 1..Len(gems) : gems[i].suit = s})

\* C26: objective_satisfied(objective, gems) is true exactly if, for every suit, the
\* owned gems of that suit are at least as many as the required cards of that suit;
\* it gives the same result for every rearrangement of the owned gems and of the
\* required cards, is true for an objective without required cards whatever is owned,
\* and leaves its arguments as they were.
C26_ObjectiveSatisfied ==
    call.pc = "returned" =>
        /\ call.result <=>
              \A s \in Suits :
                  OwnedOfSuit(call.gems_owned, s) >= OwnedOfSuit(call.obj.required_cards, s)
        /\ \A g \in Rearranged(call.gems_owned), r \in Rearranged(call.obj.required_cards) :
              objective_satisfied([call.obj EXCEPT !.required_cards = r], g) = call.result
        /\ call.obj.required_cards = <<>> => call.result
        /\ call \in { [c EXCEPT !.pc = "returned"] @@ [result |-> call.result] :
                        c \in HelperCalls }

\* two required cards of one suit, held among three gems with another between them
C26_Witness ==
    /\ call.pc = "returned" /\ call.result
    /\ Len(call.obj.required_cards) = 2 /\ Len(call.gems_owned) = 3
    /\ call.obj.required_cards[1].suit = call.obj.required_cards[2].suit
    /\ call.gems_owned[1].suit = call.gems_owned[3].suit
    /\ call.gems_owned[2].suit # call.gems_owned[1].suit

SeatOf(seating, pid) == CHOOSE i \in DOMAIN seating : seating[i] = pid

\* the position of the tiebreak leader in the vector encode_input returns: after four
\* trinkets of five numbers, the pile count and the two upcoming gems
LeaderPosition == 24

\* C27: the first encode_input call that gets as far as the mapping sets
\* player_order_map to map the player id at seating index i to (i - own seating
\* index) mod n, so itself to 0 and the next seat clockwise to 1; every later call
\* leaves player_order_map as it is whatever the observation; each such call sets
\* prev_observation to the observation passed; and a call that returns encodes the
\* tiebreak leader as player_order_map[leader id] when the map knows the leader.
C27_SeatMapping ==
    [][ (encode_calls' = encode_calls + 1) =>
          LET o == call'.obs
              seating == o.context.seating_order
              n == Len(seating)
              own == o.private.player_id
          IN /\ (player_order_map.none /\ ~player_order_map'.none) =>
                   /\ DOMAIN player_order_map'.value = Range(seating)
                   /\ \A pid \in Range(seating) :
                         \E k \in 0..(n - 1) :
                             /\ player_order_map'.value[pid] = k
                             /\ seating[((SeatOf(seating, own) - 1 + k) % n) + 1] = pid
                   /\ player_order_map'.value[own] = 0
                   /\ player_order_map'.value[seating[(SeatOf(seating, own) % n) + 1]] = 1
             /\ (player_order_map.none /\ own \in Range(seating)) => ~player_order_map'.none
             /\ ~player_order_map.none => player_order_map' = player_order_map
             /\ ~player_order_map'.none => prev_observation' = Some(o)
             /\ (call'.pc = "returned"
                   /\ o.context.tiebreak_leader_id \in DOMAIN player_order_map'.value) =>
                   encoded'.value[LeaderPosition]
                       = player_order_map'.value[o.context.tiebreak_leader_id] ]_vars

\* a second call with another seating order and another player id than the first:
\* the map is still the first call's, and the leader is encoded with it
C27_Witness ==
    /\ encode_calls = 2 /\ call.pc = "returned"
    /\ ~player_order_map.none
    /\ player_order_map.value # OrderMapOf(prev_observation.value)
    /\ call.obs.context.tiebreak_leader_id \in DOMAIN player_order_map.value
    /\ encoded.value[LeaderPosition] = 2
    /\ OrderMapOf(prev_observation.value)[call.obs.context.tiebreak_leader_id] # 2

\* a step of a turn that _resolve_winner settles, or has settled, without a winner
NoWinnerStep ==
    \/ pc = "bid" /\ pc' = "apply" /\ winner_id' = NoWinner
    \/ pc \in {"apply", "reveal"} /\ winner_id = NoWinner

\* the gems an Auction1/Auction2 turn takes from the front of the upcoming row
Taken == IF action.kind = "AUCTION_1" THEN Min2(1, Len(upcoming)) ELSE Min2(2, Len(upcoming))

\* the step moves the first Taken gems out of the row into the AuctionResult, keeps
\* the rest of the row in place and refills the row from the end of the facedown pile
RowTakenAndRefilled ==
    LET rest == Len(upcoming) - Taken
        drawn == Len(upcoming') - rest
    IN /\ Last(past_auctions').auctioned_gems = SubSeq(upcoming, 1, Taken)
       /\ Len(upcoming') = Min2(2, rest + Len(gem_draw_pile))
       /\ SubSeq(upcoming', 1, rest) = SubSeq(upcoming, Taken + 1, Len(upcoming))
       /\ Range(upcoming') \cap Range(SubSeq(upcoming, 1, Taken)) = {}
       /\ gem_draw_pile' = SubSeq(gem_draw_pile, 1, Len(gem_draw_pile) - drawn)
       /\ \A k \in 1..drawn :
             upcoming'[rest + k] = gem_draw_pile[Len(gem_draw_pile) + 1 - k]

\* C28: in a turn resolved as "no winner", no step changes any player's cash, owned
\* gems, loans, investments, trinket points or info cards, no trinket is claimed, no
\* info card is revealed and the tiebreak leader stays; in an Auction1/Auction2 turn
\* the auctioned gems still leave the upcoming row, are written into the
\* AuctionResult, and the row is refilled.
C28_NoWinnerFrame ==
    [][ NoWinnerStep =>
          /\ players' = players
          /\ trinkets' = trinkets
          /\ tiebreak_leader_id' = tiebreak_leader_id
          /\ pc = "apply" =>
                /\ Last(past_auctions').winner_id = NoWinner
                /\ Last(past_auctions').trinkets_claimed = <<>>
                /\ Last(past_auctions').new_tiebreak_leader_id = tiebreak_leader_id
                /\ IF action.kind \in AuctionKinds
                   THEN RowTakenAndRefilled
                   ELSE upcoming' = upcoming /\ gem_draw_pile' = gem_draw_pile ]_vars

\* a turn after a won turn ended without a winner: its gems are in the result and not
\* in the refilled row, and a player still holds an unrevealed info card
C28_Witness ==
    /\ pc = "loop"
    /\ Len(past_auctions) = 2
    /\ past_auctions[1].winner_id >= 0
    /\ past_auctions[2].winner_id = NoWinner
    /\ past_auctions[2].auctioned_gems # <<>>
    /\ tiebreak_leader_id = past_auctions[1].winner_id
    /\ upcoming # <<>>
    /\ \E p \in PlayerIds : players[p].unrevealed_info # <<>>
    /\ \E i \in DOMAIN trinkets : trinkets[i].claimed_by = None

\* C29: the step applying an Auction1 turn moves exactly the gem at the front of the
\* upcoming row out of the row, the step applying an Auction2 turn exactly the first
\* min(2, |upcoming|) gems; with a winner they are appended to the winner's owned
\* gems and no other player's gems change; the winner's cash went down by exactly
\* the winning bid when the winner was resolved, and no other step of the turn
\* changes any player's cash; afterwards the row holds min(2, gems left in the row +
\* facedown pile) gems.
C29_AuctionEffects ==
    [][ action.kind \in AuctionKinds =>
          /\ (pc = "bid" /\ pc' = "apply") =>
                /\ \A p \in PlayerIds :
                      /\ players'[p].cash =
                            players[p].cash - (IF p = winner_id' THEN winning_bid' ELSE 0)
                      /\ players'[p].gems_owned = players[p].gems_owned
                /\ upcoming' = upcoming
          /\ pc = "apply" =>
                /\ RowTakenAndRefilled
                /\ action.kind = "AUCTION_1" => Taken = 1
                /\ \A p \in PlayerIds :
                      /\ players'[p].cash = players[p].cash
                      /\ players'[p].gems_owned =
                            IF p = winner_id
                            THEN players[p].gems_owned \o SubSeq(upcoming, 1, Taken)
                            ELSE players[p].gems_owned
          /\ pc = "reveal" =>
                /\ upcoming' = upcoming
                /\ \A p \in PlayerIds :
                      /\ players'[p].cash = players[p].cash
                      /\ players'[p].gems_owned = players[p].gems_owned ]_vars

\* an Auction2 turn was won at a positive bid: the winner holds both gems, and the row
\* is full again
C29_Witness ==
    /\ pc = "reveal"
    /\ action.kind = "AUCTION_2"
    /\ winner_id >= 0 /\ winning_bid >= 1
    /\ Len(Last(past_auctions).auctioned_gems) = 2
    /\ Len(players[winner_id].gems_owned) >= 2
    /\ Len(upcoming) = 2

InvestmentKinds == {"INVESTMENT_5", "INVESTMENT_10"}

\* the score _compute_score gives player record p in the current game
ScoreWith(p) == ComputeScore(p, GemValues(value_chart, info_counts_by_suit_at_start, players))

\* C30: when a player wins Invest5/Invest10 with bid b, resolving the winner takes b
\* from their cash, applying the turn appends exactly one InvestmentPosition with
\* payout 5 (Invest5) or 10 (Invest10) and locked = b to their investments and changes
\* nothing else of theirs, and their score after the turn is their score before
\* paying plus the payout, whatever b.
C30_InvestmentNet ==
    [][ action.kind \in InvestmentKinds =>
          /\ (pc = "bid" /\ pc' = "apply" /\ winner_id' >= 0) =>
                players' = [players EXCEPT ![winner_id'].cash = @ - winning_bid']
          /\ (pc = "apply" /\ winner_id >= 0) =>
                LET payout == IF action.kind = "INVESTMENT_5" THEN 5 ELSE 10
                    paid == players[winner_id]
                    before == [paid EXCEPT !.cash = @ + winning_bid]
                    after == players'[winner_id]
                IN /\ Len(after.investments) = Len(paid.investments) + 1
                   /\ SubSeq(after.investments, 1, Len(paid.investments)) = paid.investments
                   /\ Last(after.investments).payout = payout
                   /\ Last(after.investments).locked = winning_bid
                   /\ after = [paid EXCEPT !.investments = after.investments]
                   /\ ScoreWith(after) = ScoreWith(before) + payout
          /\ pc = "reveal" =>
                \A p \in PlayerIds :
                   /\ players'[p].cash = players[p].cash
                   /\ players'[p].investments = players[p].investments ]_vars

\* an Invest5 turn was won at a positive bid by a player who holds the position
C30_Witness ==
    /\ pc = "reveal"
    /\ action.kind = "INVESTMENT_5"
    /\ winner_id >= 0 /\ winning_bid >= 1
    /\ Last(players[winner_id].investments).locked = winning_bid
    /\ Last(players[winner_id].investments).payout = 5

LoanKinds == {"LOAN_10", "LOAN_20"}

\* C31: when a player wins Loan10/Loan20 with bid b, resolving the winner takes b
\* from their cash and applying the turn adds the principal, 10 (Loan10) or 20
\* (Loan20), so their cash changes by principal - b in the turn; exactly one
\* LoanPosition with that principal and winning_bid = b is appended to their loans,
\* nothing else of theirs changes, and their score after the turn is their score
\* before paying minus b.
C31_LoanNet ==
    [][ action.kind \in LoanKinds =>
          /\ (pc = "bid" /\ pc' = "apply" /\ winner_id' >= 0) =>
                players' = [players EXCEPT ![winner_id'].cash = @ - winning_bid']
          /\ (pc = "apply" /\ winner_id >= 0) =>
                LET principal == IF action.kind = "LOAN_10" THEN 10 ELSE 20
                    paid == players[winner_id]
                    before == [paid EXCEPT !.cash = @ + winning_bid]
                    after == players'[winner_id]
                IN /\ after.cash = before.cash + principal - winning_bid
                   /\ Len(after.loans) = Len(paid.loans) + 1
                   /\ SubSeq(after.loans, 1, Len(paid.loans)) = paid.loans
                   /\ Last(after.loans).principal = principal
                   /\ Last(after.loans).winning_bid = winning_bid
                   /\ after = [paid EXCEPT !.cash = after.cash, !.loans = after.loans]
                   /\ \A p \in PlayerIds \ {winner_id} : players'[p] = players[p]
                   /\ ScoreWith(after) = ScoreWith(before) - winning_bid
          /\ pc = "reveal" =>
                \A p \in PlayerIds :
                   /\ players'[p].cash = players[p].cash
                   /\ players'[p].loans = players[p].loans ]_vars

\* a Loan20 turn was won at a positive bid by a player who holds the position and
\* the principal
C31_Witness ==
    /\ pc = "reveal"
    /\ action.kind = "LOAN_20"
    /\ winner_id >= 0 /\ winning_bid >= 1
    /\ Last(players[winner_id].loans).winning_bid = winning_bid
    /\ Last(players[winner_id].loans).principal = 20
    /\ players[winner_id].cash >= 20

\* the loop head draws an action: the step leaves "loop" for "bid", or stays (a skip)
Drawing == pc = "loop" /\ pc' \in {"loop", "bid"}

\* C32: a drawn Auction1 is skipped iff the upcoming row is empty, a drawn Auction2 iff
\* skip_auction2_if_insufficient_gems is enabled and the row holds fewer than 2 gems,
\* and no other action is skipped; a skipped action is on top of the discard pile,
\* and the step that skips it starts no bidding, appends no AuctionResult, calls no
\* hook, and leaves every player, the leader, the row, the facedown pile and the
\* turn index as they were.
C32_SkipRule ==
    [][ Drawing =>
          /\ Last(action_discard') = action'
          /\ (pc' = "loop") <=>
                \/ action'.kind = "AUCTION_1" /\ upcoming = <<>>
                \/ /\ action'.kind = "AUCTION_2"
                   /\ cfg.skip_auction2_if_insufficient_gems
                   /\ Len(upcoming) < 2
          /\ (pc' = "loop") =>
                /\ UNCHANGED <<players, tiebreak_leader_id, past_auctions, turn_index,
                               bids, bid_pid, started, upcoming, gem_draw_pile, trinkets,
                               start_calls, resolved_calls, end_calls>> ]_vars

\* an Auction2 was drawn with one gem in the row and skipped before any turn was
\* played: it is discarded, no strategy has been called, the turn index is 0
C32_Witness ==
    /\ pc = "loop"
    /\ action.kind = "AUCTION_2"
    /\ Last(action_discard) = action
    /\ cfg.skip_auction2_if_insufficient_gems
    /\ Len(upcoming) = 1
    /\ past_auctions = <<>> /\ turn_index = 0 /\ ~started
    /\ \A p \in PlayerIds : start_calls[p] = 0

\* the action cards of the configured deck
ConfiguredCards == SumSeq([i \in 1..Len(cfg.action_counts) |-> cfg.action_counts[i].n])

\* C33: play() leaves the turn loop only from the loop head, and only when the
\* upcoming row and the facedown pile are both empty or when the action draw pile
\* and the discard pile are both empty; the second happens only if the configured
\* deck has no cards, because the two piles together always hold the whole deck:
\* a draw moves the top card of the draw pile onto the discard pile, and a reshuffle
\* moves the whole discard pile into the draw pile before the draw; the step that
\* reshuffles and draws appends no history entry and does not advance the turn index.
C33_EndCondition ==
    /\ [](Len(action_draw_pile) + Len(action_discard) = ConfiguredCards)
    /\ [][ /\ (pc' = "end" /\ pc # "end") =>
                /\ pc = "loop"
                /\ \/ upcoming = <<>> /\ gem_draw_pile = <<>>
                   \/ /\ action_draw_pile = <<>> /\ action_discard = <<>>
                      /\ ConfiguredCards = 0
           /\ Drawing =>
                /\ turn_index' = turn_index
                /\ past_auctions' = past_auctions
                /\ IF action_draw_pile = <<>>
                   THEN /\ action_discard' = <<action'>>
                        /\ Len(action_draw_pile') = Len(action_discard) - 1
                        /\ Range(action_draw_pile') \cup {action'} = Range(action_discard)
                   ELSE /\ action_discard' = Append(action_discard, action')
                        /\ action_draw_pile' = Front(action_draw_pile)
                        /\ action' = Last(action_draw_pile) ]_vars

\* a deck of two cards was drawn to the end and reshuffled after a turn had been
\* played: one card lies discarded, the history and the turn index did not move
C33_Witness ==
    /\ pc = "bid"
    /\ ConfiguredCards >= 2
    /\ past_auctions # <<>>
    /\ turn_index = Len(past_auctions)
    /\ action_discard = <<action>>
    /\ Len(action_draw_pile) = ConfiguredCards - 1

\* the order of play(): the loop head, the bids, resolution and effects with the
\* hooks, the reveal, the loop head again; the end-game hooks after the loop
StepOrder ==
    { <<"play", "loop">>, <<"loop", "bid">>, <<"loop", "end">>, <<"bid", "apply">>,
      <<"apply", "reveal">>, <<"reveal", "loop">>, <<"end", "done">> }

\* the observation kept at this step shows the state the step leaves for cash, gems,
\* leader and history, and the info cards as they are before the reveal
ShowsResolvedTurn(o) ==
    /\ \A p \in PlayerIds :
          /\ o.public.players[p + 1].cash = players'[p].cash
          /\ o.public.players[p + 1].gems_owned = players'[p].gems_owned
          /\ o.public.players[p + 1].trinket_points = players'[p].trinket_points
          /\ o.public.players[p + 1].revealed_info = players[p].revealed_info
          /\ o.public.players[p + 1].unrevealed_info_count = Len(players[p].unrevealed_info)
    /\ o.private.info_cards_unrevealed = players[o.private.player_id].unrevealed_info
    /\ o.private.info_cards_revealed = players[o.private.player_id].revealed_info
    /\ o.context.tiebreak_leader_id = tiebreak_leader_id'
    /\ o.context.upcoming_gems = upcoming'
    /\ o.context.turn_index = turn_index
    /\ o.public.past_auctions = past_auctions'

\* C34: every played turn appends exactly one AuctionResult, whose turn_index is its
\* position in the history (0, 1, 2, ...), and nothing else changes the history; the
\* steps of a turn come in the order: get_bid for every player in player order,
\* resolution, then effects with the trinket check, the result and
\* on_auction_resolved, then the winner's choose_info_to_reveal, and only then the
\* next turn; the observation passed to on_auction_resolved shows the cash, gems and
\* leader after the effects and the info cards before the reveal.
C34_TurnOrder ==
    /\ [](\A i \in 1..Len(past_auctions) : past_auctions[i].turn_index = i - 1)
    /\ [](Len(past_auctions) = IF pc = "reveal" THEN turn_index + 1 ELSE turn_index)
    /\ [][ /\ pc' # pc => <<pc, pc'>> \in StepOrder
           /\ (pc = "bid" /\ pc' = "bid") => bid_pid' = bid_pid + 1
           /\ (pc = "bid" /\ pc' = "apply") => bid_pid = PlayerCount
           /\ IF pc = "apply"
              THEN /\ Len(past_auctions') = Len(past_auctions) + 1
                   /\ SubSeq(past_auctions', 1, Len(past_auctions)) = past_auctions
                   /\ Last(past_auctions').turn_index = turn_index
                   /\ Last(past_auctions').bids = bids
                   /\ \A p \in PlayerIds : resolved_calls'[p] = resolved_calls[p] + 1
                   /\ (~held.taken /\ held'.taken) =>
                         held'.hook = "on_auction_resolved" /\ ShowsResolvedTurn(held'.obs)
              ELSE past_auctions' = past_auctions /\ resolved_calls' = resolved_calls
           /\ pc = "reveal" => turn_index' = turn_index + 1
           /\ pc # "reveal" => turn_index' = turn_index \/ pc = "play" ]_vars

\* an observation kept in the on_auction_resolved of the second turn shows the
\* winner's payment and both results, and one revealed card fewer than the winner
\* has after the reveal that followed
C34_Witness ==
    /\ pc = "loop"
    /\ held.taken /\ held.hook = "on_auction_resolved"
    /\ held.obs.context.turn_index = 1 /\ turn_index = 2
    /\ Len(held.obs.public.past_auctions) = 2
    /\ winner_id >= 0 /\ winning_bid >= 1
    /\ held.obs.public.players[winner_id + 1].cash = players[winner_id].cash
    /\ Len(held.obs.public.players[winner_id + 1].revealed_info) + 1
          = Len(players[winner_id].revealed_info)

\* trinket i is unclaimed, requires a card, and the owned gems of player p satisfy it
OpenFor(ts, ps, i, p) ==
    /\ ts[i].claimed_by = None
    /\ ts[i].objective.required_cards # <<>>
    /\ Holds(ps[p].gems_owned, ts[i].objective)

\* C35: at every turn boundary, and between the steps of a turn, no unclaimed trinket
\* with a non-empty requirement is satisfied by any player's owned gems; the step
\* that gives a player the gems that satisfy such a trinket claims it in the same
\* step, for that player, who is the turn's winner.
C35_PromptClaiming ==
    /\ [](\A i \in 1..Len(trinkets), p \in PlayerIds : ~OpenFor(trinkets, players, i, p))
    /\ [][ \A i \in 1..Len(trinkets), p \in PlayerIds :
              OpenFor(trinkets, players', i, p) =>
                 /\ pc = "apply" /\ p = winner_id
                 /\ trinkets'[i].claimed_by = p ]_vars

\* a player claimed a trinket of two cards in the second turn, with the gem that
\* completed the pair won in the first; another trinket is still unclaimed
C35_Witness ==
    /\ pc = "loop"
    /\ Len(past_auctions) = 2
    /\ past_auctions[1].trinkets_claimed = <<>>
    /\ past_auctions[2].trinkets_claimed # <<>>
    /\ \E i \in 1..Len(trinkets) :
          /\ Len(trinkets[i].objective.required_cards) = 2
          /\ trinkets[i].claimed_by = past_auctions[2].winner_id
          /\ past_auctions[1].winner_id = past_auctions[2].winner_id
    /\ \E i \in 1..Len(trinkets) : trinkets[i].claimed_by = None

\* the cards of a kind in the action draw pile
InDrawPile(kind) ==
    Cardinality({i \in 1..Len(action_draw_pile) : action_draw_pile[i].kind = kind})

\* C36: at every turn boundary and for every action kind, the exposed
\* action_counts_remaining value is the number of cards of that kind in the action
\* draw pile, also after a reshuffle, and is never negative.
C36_CountersMatchDrawPile ==
    TurnBoundary =>
        \A kind \in ActionType :
            /\ CountsGet(action_counts_remaining, kind) = InDrawPile(kind)
            /\ CountsGet(action_counts_remaining, kind) >= 0

AllPass(b) == \A p \in PlayerIds : b[p] = 0

\* the kinds of turn in which a price of 0 moves no cash
CashlessKinds == AuctionKinds \cup InvestmentKinds

\* C37: with discard_on_all_pass disabled, a turn in which every player bids 0 is won
\* at price 0 by the player seated next clockwise after the current leader,
\* (leader + 1) mod n, who becomes the new leader; so the winners of consecutive
\* all-pass turns follow each other clockwise around the seats; and no step of an
\* all-pass Auction1/Auction2/Invest5/Invest10 turn changes any player's cash.
C37_AllPassRotation ==
    /\ [](~cfg.discard_on_all_pass =>
             \A i \in 1..Len(past_auctions) :
                AllPass(past_auctions[i].bids) =>
                   /\ past_auctions[i].winning_bid = 0
                   /\ past_auctions[i].new_tiebreak_leader_id = past_auctions[i].winner_id
                   /\ i > 1 => past_auctions[i].winner_id
                                  = (past_auctions[i - 1].new_tiebreak_leader_id + 1)
                                       % PlayerCount)
    /\ [][ (~cfg.discard_on_all_pass /\ pc \in {"bid", "apply", "reveal"}
              /\ bid_pid = PlayerCount /\ AllPass(bids)) =>
             /\ pc = "bid" =>
                   /\ winner_id' = (tiebreak_leader_id + 1) % PlayerCount
                   /\ winning_bid' = 0
                   /\ new_leader' = winner_id'
                   /\ players' = players
             /\ pc = "apply" => tiebreak_leader_id' = winner_id
             /\ action.kind \in CashlessKinds =>
                   \A p \in PlayerIds : players'[p].cash = players[p].cash ]_vars

\* two all-pass turns in a row that move no cash: the last seat won the first, the
\* first seat the second, and every player still has the starting cash
C37_Witness ==
    /\ pc = "loop"
    /\ ~cfg.discard_on_all_pass
    /\ Len(past_auctions) = 2
    /\ AllPass(past_auctions[1].bids) /\ AllPass(past_auctions[2].bids)
    /\ past_auctions[1].winner_id = PlayerCount - 1
    /\ past_auctions[2].winner_id = 0
    /\ past_auctions[1].action.kind \in CashlessKinds
    /\ past_auctions[2].action.kind \in CashlessKinds
    /\ \A p \in PlayerIds : players[p].cash = cfg.starting_cash

\* one get_bid call of _collect_bids
Bidding == pc = "bid" /\ pc' = "bid"

\* the amount the answer o of a strategy holding `cash` counts as
LegalAmount(o, cash) ==
    IF o.raised THEN 0
    ELSE IF o.value >= 0 /\ o.value <= cash THEN o.value
    ELSE 0

\* observation o, given to player p for get_bid, shows the engine as it is while the
\* bids are collected and holds nothing of the current turn but its index, its
\* action, the row, the pile count and the leader
ShowsNoBid(o, p) ==
    /\ DOMAIN o = {"public", "private", "context", "me"}
    /\ DOMAIN o.context = {"turn_index", "action", "upcoming_gems", "biddable_pile_count",
                           "tiebreak_leader_id", "seating_order"}
    /\ DOMAIN o.public = {"num_players", "players", "trinkets", "value_chart",
                          "action_discard", "past_auctions", "action_counts_remaining"}
    /\ o.public.past_auctions = past_auctions
    /\ \A i \in 1..Len(o.public.past_auctions) :
          o.public.past_auctions[i].turn_index < turn_index
    /\ \A q \in PlayerIds : o.public.players[q + 1] = PlayerPublicState(players[q])
    /\ o.me = PlayerPublicState(players[p])
    /\ o.private.player_id = p
    /\ o.private.info_cards_unrevealed = players[p].unrevealed_info
    /\ o.context.turn_index = turn_index /\ o.context.action = action
    /\ o.context.upcoming_gems = upcoming
    /\ o.context.tiebreak_leader_id = tiebreak_leader_id

\* C38: no get_bid call of a turn changes any engine state, so the state is the same
\* from the first to the last call; every player's bid is legalized against that
\* player's cash, which is the cash at the start of the turn; and the observation
\* given to a player for get_bid is built from that state and the turn's index and
\* action alone: it holds no bid of the current turn.
C38_SimultaneousBids ==
    /\ [](pc = "bid" => \A p \in PlayerIds : p >= bid_pid => bids[p] = 0)
    /\ [][ Bidding =>
             /\ EngineState' = EngineState
             /\ cfg' = cfg /\ rng' = rng /\ action_draw_pile' = action_draw_pile
             /\ bid_pid' = bid_pid + 1
             /\ bids' = [bids EXCEPT ![bid_pid] = LegalAmount(out', players[bid_pid].cash)]
             /\ held' # held =>
                   /\ held'.hook = "get_bid" /\ held'.to = bid_pid
                   /\ held'.from = EngineState
                   /\ ShowsNoBid(held'.obs, bid_pid) ]_vars

\* the last bidder of the second turn kept its observation; both others had bid 1
\* before it was asked, and the observation shows each of them with their cash
C38_Witness ==
    /\ pc = "bid" /\ bid_pid = PlayerCount
    /\ turn_index = 1
    /\ held.taken /\ held.hook = "get_bid" /\ held.to = PlayerCount - 1
    /\ held.obs.context.turn_index = 1
    /\ \E p, q \in PlayerIds :
          /\ p < q /\ q < held.to
          /\ bids[p] >= 1 /\ bids[q] >= 1
          /\ held.obs.public.players[p + 1].cash = players[p].cash
          /\ held.obs.public.players[q + 1].cash = players[q].cash

\* C39: at every turn boundary the upcoming row holds at most 2 gems, and fewer than
\* 2 only if the facedown pile is empty; so whenever an action is drawn the row
\* holds at least one gem, a drawn Auction1 is never skipped, and every played
\* Auction1/Auction2 turn auctions at least one gem.
C39_UpcomingRow ==
    /\ [](TurnBoundary =>
             /\ Len(upcoming) <= 2
             /\ Len(upcoming) < 2 => gem_draw_pile = <<>>)
    /\ [][ /\ Drawing =>
                /\ upcoming # <<>>
                /\ action'.kind = "AUCTION_1" => pc' = "bid"
           /\ (pc = "apply" /\ action.kind \in AuctionKinds) =>
                Last(past_auctions').auctioned_gems # <<>> ]_vars

\* the facedown pile ran out: one gem is left in the row after an Auction1 turn, and
\* the next action is drawn with that gem in the row
C39_Witness ==
    /\ pc = "bid"
    /\ Len(upcoming) = 1 /\ gem_draw_pile = <<>>
    /\ action.kind = "AUCTION_2"
    /\ past_auctions # <<>>
    /\ Last(past_auctions).action.kind = "AUCTION_1"
    /\ Len(Last(past_auctions).auctioned_gems) = 1

\* C40: for every engine that constructs, whatever its action deck (also a deck of
\* AUCTION_2 cards only) and policy flags, play() eventually returns, whatever the
\* strategies bid.
C40_GeneralTermination == <>(pc = "done")

====
